---------------------------- MODULE Spec2Model ----------------------------
(***************************************************************************)
(* BackPainCoach: the posture / exercise scoring engine.                   *)
(*                                                                         *)
(* One frame of the pose source is a keypoint array kps.  The evaluators   *)
(* scoreHipHinge, scorePlank, scoreBirdDog, scoreDeadBug and               *)
(* scoreWalkingPosture and the visibility validators checkJointVisibility  *)
(* and checkFullBodyVisibility are pure functions of that array; an action *)
(* applies one of them to the frame and records what it returned.          *)
(*                                                                         *)
(* Numbers.  Pixel coordinates are integers.  A confidence is an integer   *)
(* number of hundredths (0.45 is 45); a keypoint without a score field has *)
(* no confidence.  An angle is measured in quarter degrees (Deg(n) = 4n):  *)
(* the code's floating-point angle is exactly 90 when the dot product is 0 *)
(* and otherwise lies strictly between two whole degrees n and n+1, which  *)
(* the model represents by n + 1/2.  Every threshold of the code is a      *)
(* whole number of degrees, so comparing the represented angle with a      *)
(* threshold gives the code's outcome; the mean of two angles is then a    *)
(* whole number of quarter degrees.  Cue texts are the code's, with the    *)
(* typographic dash and apostrophe written in ASCII.                       *)
(***************************************************************************)
EXTENDS Integers, Sequences, FiniteSets

VARIABLES
  kps,   \* the keypoint array of the current frame
  fn,    \* the function last applied to the frame ("none" before any call)
  out,   \* what that call returned
  symptoms,  \* the symptom record of the form (SymptomForm's state s)
  runner,    \* ExerciseRunner's session prop and its idx / mode state
  init,      \* a tracker's initialisation effect: camera, detector, cleanup
  comp,      \* the mounted tracker: "PoseCoach", "ExerciseTracker", "Posher"
  mode,      \* its mode / currentExercise state
  detector,  \* detectorRef.current is set (the pose model has loaded)
  loops,     \* the frame-processing chains started so far
  current,   \* the chain whose raf id the current effect's cleanup cancels
  display,   \* the component's score / cues state (the display sink)
  updated,   \* the last arguments of PoseCoach's onUpdate callback
  app,       \* App's lastScore / cues state, passed to RightPanel
  panel,     \* what the recommendations panel renders
  frame      \* the frame processed last and what was computed for it

\* The state of the mounted components; the pure functions do not touch it.
uiVars ==
  <<symptoms, runner, init, comp, mode, detector, loops, current, display,
    updated, app, panel, frame>>

vars == <<kps, fn, out, uiVars>>

Abs(n) == IF n < 0 THEN -n ELSE n
Max(a, b) == IF a >= b THEN a ELSE b
Min(a, b) == IF a <= b THEN a ELSE b

---------------------------------------------------------------------------
(* Geometry primitives (angles.ts)                                         *)

\* n whole degrees, in the model's quarter-degree unit.
Deg(n) == 4 * n

\* CotTable[k] = 1000 * cot(k degrees), rounded, for k = 1 .. 179.
CotTable ==
  << 57290, 28636, 19081, 14301, 11430, 9514, 8144, 7115, 6314, 5671,
     5145, 4705, 4331, 4011, 3732, 3487, 3271, 3078, 2904, 2747,
     2605, 2475, 2356, 2246, 2145, 2050, 1963, 1881, 1804, 1732,
     1664, 1600, 1540, 1483, 1428, 1376, 1327, 1280, 1235, 1192,
     1150, 1111, 1072, 1036, 1000, 966, 933, 900, 869, 839,
     810, 781, 754, 727, 700, 675, 649, 625, 601, 577,
     554, 532, 510, 488, 466, 445, 424, 404, 384, 364,
     344, 325, 306, 287, 268, 249, 231, 213, 194, 176,
     158, 141, 123, 105, 87, 70, 52, 35, 17, 0,
     -17, -35, -52, -70, -87, -105, -123, -141, -158, -176,
     -194, -213, -231, -249, -268, -287, -306, -325, -344, -364,
     -384, -404, -424, -445, -466, -488, -510, -532, -554, -577,
     -601, -625, -649, -675, -700, -727, -754, -781, -810, -839,
     -869, -900, -933, -966, -1000, -1036, -1072, -1111, -1150, -1192,
     -1235, -1280, -1327, -1376, -1428, -1483, -1540, -1600, -1664, -1732,
     -1804, -1881, -1963, -2050, -2145, -2246, -2356, -2475, -2605, -2747,
     -2904, -3078, -3271, -3487, -3732, -4011, -4331, -4705, -5145, -5671,
     -6314, -7115, -8144, -9514, -11430, -14301, -19081, -28636, -57290 >>

\* Whether acos(dot / (m1*m2 + 1e-9)) is at least k degrees, for vectors with
\* dot product dot and cross product of magnitude cross > 0.  The angle is at
\* least k iff its cotangent dot/cross is at most cot k.  The 1e-9 in the
\* denominator moves the cosine towards 0, so an angle above 90 comes out
\* just below its exact value: there the comparison is strict.
AtLeastDeg(dot, cross, k) ==
  IF k <= 90 THEN 1000 * dot <= CotTable[k] * cross
             ELSE 1000 * dot <  CotTable[k] * cross

\* The largest k in lo .. hi with AtLeastDeg(dot, cross, k), by bisection
\* (AtLeastDeg is antitone in k and holds at lo).
RECURSIVE FloorDeg(_, _, _, _)
FloorDeg(dot, cross, lo, hi) ==
  IF lo = hi THEN lo
  ELSE LET mid == (lo + hi + 1) \div 2
       IN  IF AtLeastDeg(dot, cross, mid)
             THEN FloorDeg(dot, cross, mid, hi)
             ELSE FloorDeg(dot, cross, lo, mid - 1)

\* angleDeg measuring the turn from the ray b->a to the ray b->c with its
\* sign (as an atan2 difference would): clockwise turns come out negative.
AngleDeg_Signed(a, b, c) ==
  LET v1x == a.x - b.x
      v1y == a.y - b.y
      v2x == c.x - b.x
      v2y == c.y - b.y
      dot == v1x * v2x + v1y * v2y
      turn == v1x * v2y - v1y * v2x
      cross == Abs(turn)
      size == IF dot = 0 THEN Deg(90)
              ELSE IF cross = 0
                THEN (IF dot > 0 THEN Deg(0) + 2 ELSE Deg(179) + 2)
              ELSE Deg(FloorDeg(dot, cross, 0, 179)) + 2
  IN  IF turn < 0 THEN -size ELSE size

\* angleDeg(a, b, c): the angle at b between the rays b->a and b->c.
\* dot = 0 (a zero-length ray included: 0 / 1e-9 = 0) gives acos(0), exactly
\* 90.  Parallel rays give a cosine just inside (-1, 1), hence an angle just
\* above 0 or just below 180.
AngleDeg(a, b, c) ==
  LET v1x == a.x - b.x
      v1y == a.y - b.y
      v2x == c.x - b.x
      v2y == c.y - b.y
      dot == v1x * v2x + v1y * v2y
      cross == Abs(v1x * v2y - v1y * v2x)
  IN  IF dot = 0 THEN Deg(90)
      ELSE IF cross = 0 THEN (IF dot > 0 THEN Deg(0) + 2 ELSE Deg(179) + 2)
      ELSE Deg(FloorDeg(dot, cross, 0, 179)) + 2

\* kp.name === name, for a keypoint whose name field is optional.
HasName(kp, name) == "name" \in DOMAIN kp /\ kp.name = name

\* get taking the last keypoint of the name instead of the first.
get_Last(array, name) ==
  LET found == { i \in DOMAIN array : HasName(array[i], name) }
  IN  IF found = {} THEN [x |-> 0, y |-> 0]
      ELSE array[CHOOSE i \in found : \A j \in found : i >= j]

\* get(kps, name): the first keypoint of that name, or a placeholder at the
\* origin.
get(array, name) ==
  LET found == { i \in DOMAIN array : HasName(array[i], name) }
  IN  IF found = {} THEN [x |-> 0, y |-> 0]
      ELSE array[CHOOSE i \in found : \A j \in found : i <= j]

\* Twice the midpoint of p and q.  The code halves the sums; the angle at a
\* vertex does not change when all three points are scaled by 2, and the
\* model keeps integers.
Mid2(p, q) == [x |-> p.x + q.x, y |-> p.y + q.y]

---------------------------------------------------------------------------
(* Rule evaluators                                                         *)

\* A failed check that subtracts its penalty and pushes no cue.
Fail_NoCue(r, cue, penalty) ==
  [score |-> r.score - penalty, cues |-> r.cues]

\* A failed check: cues.push(cue); score -= penalty.
Fail(r, cue, penalty) ==
  [score |-> r.score - penalty, cues |-> Append(r.cues, cue)]

\* The accumulator before the first check: cues = [], score = 100.
Start == [score |-> 100, cues |-> <<>>]

\* A clamp that returns the deductions (score - 100) in place of the score.
Clamp_Deductions(score) == Min(0, Max(-100, score - 100))

\* Math.max(0, Math.min(100, score)).
Clamp(score) == Max(0, Min(100, score))

\* scoreHipHinge (scoreHipHinge.ts): what it measures.
HipHingeMeasure(array) ==
  LET lS == get(array, "left_shoulder")
      rS == get(array, "right_shoulder")
      lH == get(array, "left_hip")
      rH == get(array, "right_hip")
      lK == get(array, "left_knee")
      rK == get(array, "right_knee")
      kL == AngleDeg(get(array, "left_hip"), get(array, "left_knee"),
                     get(array, "left_ankle"))
      kR == AngleDeg(get(array, "right_hip"), get(array, "right_knee"),
                     get(array, "right_ankle"))
  IN  [trunk     |-> AngleDeg(Mid2(lS, rS), Mid2(lH, rH), Mid2(lK, rK)),
       kneeAngle |-> (kL + kR) \div 2,
       hipTilt   |-> Abs(lH.y - rH.y)]

\* scoreHipHinge with scorePlank's hip-tilt threshold (15 in place of 20).
scoreHipHinge_PlankTilt(array) ==
  LET m  == HipHingeMeasure(array)
      r1 == IF m.kneeAngle < Deg(155)
              THEN Fail(Start, "Less knee bend - micro-bend only.", 15)
              ELSE Start
      r2 == IF m.trunk > Deg(165)
              THEN Fail(r1, "Push hips back; hinge more.", 15) ELSE r1
      r3 == IF m.trunk < Deg(95)
              THEN Fail(r2, "Don't overfold; limit range.", 10) ELSE r2
      r4 == IF m.hipTilt > 15 THEN Fail(r3, "Level your hips.", 10) ELSE r3
  IN  [score |-> Clamp(r4.score), cues |-> r4.cues]

\* scoreHipHinge: its checks, in the order of the code.
scoreHipHinge(array) ==
  LET m  == HipHingeMeasure(array)
      r1 == IF m.kneeAngle < Deg(155)
              THEN Fail(Start, "Less knee bend - micro-bend only.", 15)
              ELSE Start
      r2 == IF m.trunk > Deg(165)
              THEN Fail(r1, "Push hips back; hinge more.", 15) ELSE r1
      r3 == IF m.trunk < Deg(95)
              THEN Fail(r2, "Don't overfold; limit range.", 10) ELSE r2
      r4 == IF m.hipTilt > 20 THEN Fail(r3, "Level your hips.", 10) ELSE r3
  IN  [score |-> Clamp(r4.score), cues |-> r4.cues]

\* scorePlank (scorePlank.ts): what it measures.
PlankMeasure(array) ==
  LET s == Mid2(get(array, "left_shoulder"), get(array, "right_shoulder"))
      h == Mid2(get(array, "left_hip"), get(array, "right_hip"))
      k == Mid2(get(array, "left_knee"), get(array, "right_knee"))
      a == Mid2(get(array, "left_ankle"), get(array, "right_ankle"))
  IN  [trunk   |-> AngleDeg(s, h, k),
       leg     |-> AngleDeg(h, k, a),
       hipTilt |-> Abs(get(array, "left_hip").y - get(array, "right_hip").y)]

\* scorePlank with the leg check moved in front of the trunk checks.
scorePlank_LegFirst(array) ==
  LET m  == PlankMeasure(array)
      r1 == IF m.leg < Deg(165)
              THEN Fail(Start, "Straighten legs - press heels back.", 10)
              ELSE Start
      r2 == IF m.trunk < Deg(165)
              THEN Fail(r1, "Lift chest / tuck ribs - keep trunk long.", 15)
              ELSE r1
      r3 == IF m.trunk > Deg(185)
              THEN Fail(r2, "Don't pike - keep hips level.", 15) ELSE r2
      r4 == IF m.hipTilt > 15 THEN Fail(r3, "Level your hips.", 10) ELSE r3
  IN  [score |-> Clamp(r4.score), cues |-> r4.cues]

\* scorePlank: its checks, in the order of the code.
scorePlank(array) ==
  LET m  == PlankMeasure(array)
      r1 == IF m.trunk < Deg(165)
              THEN Fail(Start, "Lift chest / tuck ribs - keep trunk long.", 15)
              ELSE Start
      r2 == IF m.trunk > Deg(185)
              THEN Fail(r1, "Don't pike - keep hips level.", 15) ELSE r1
      r3 == IF m.leg < Deg(165)
              THEN Fail(r2, "Straighten legs - press heels back.", 10) ELSE r2
      r4 == IF m.hipTilt > 15 THEN Fail(r3, "Level your hips.", 10) ELSE r3
  IN  [score |-> Clamp(r4.score), cues |-> r4.cues]

\* scoreBirdDog and scoreDeadBug measure the same four quantities.
LimbMeasure(array) ==
  LET shoulderL == get(array, "left_shoulder")
      hipL   == get(array, "left_hip")
      hipR   == get(array, "right_hip")
      kneeL  == get(array, "left_knee")
      kneeR  == get(array, "right_knee")
      ankleR == get(array, "right_ankle")
      elbowL == get(array, "left_elbow")
      wristL == get(array, "left_wrist")
  IN  [leftArmAngle  |-> AngleDeg(shoulderL, elbowL, wristL),
       rightLegAngle |-> AngleDeg(hipR, kneeR, ankleR),
       spineAngle    |-> AngleDeg(shoulderL, hipL, kneeL),
       hipTilt       |-> Abs(hipL.y - hipR.y)]

\* scoreBirdDog with the hip check taken as "at least 20" instead of "above 20".
scoreBirdDog_TiltInclusive(array) ==
  LET m  == LimbMeasure(array)
      r1 == IF m.leftArmAngle > Deg(180) \/ m.leftArmAngle < Deg(160)
              THEN Fail(Start, "Keep arm straight but not locked.", 15)
              ELSE Start
      r2 == IF m.rightLegAngle > Deg(190) \/ m.rightLegAngle < Deg(170)
              THEN Fail(r1, "Extend leg fully, keep it in line with hip.", 15)
              ELSE r1
      r3 == IF m.spineAngle < Deg(160) \/ m.spineAngle > Deg(200)
              THEN Fail(r2, "Maintain a neutral spine. Keep back flat.", 20)
              ELSE r2
      r4 == IF m.hipTilt >= 20
              THEN Fail(r3, "Keep hips level and stable.", 10) ELSE r3
  IN  [score |-> Clamp(r4.score), cues |-> r4.cues]

\* scoreBirdDog (scoreBirdDog.ts): its checks, in the order of the code.
scoreBirdDog(array) ==
  LET m  == LimbMeasure(array)
      r1 == IF m.leftArmAngle > Deg(180) \/ m.leftArmAngle < Deg(160)
              THEN Fail(Start, "Keep arm straight but not locked.", 15)
              ELSE Start
      r2 == IF m.rightLegAngle > Deg(190) \/ m.rightLegAngle < Deg(170)
              THEN Fail(r1, "Extend leg fully, keep it in line with hip.", 15)
              ELSE r1
      r3 == IF m.spineAngle < Deg(160) \/ m.spineAngle > Deg(200)
              THEN Fail(r2, "Maintain a neutral spine. Keep back flat.", 20)
              ELSE r2
      r4 == IF m.hipTilt > 20
              THEN Fail(r3, "Keep hips level and stable.", 10) ELSE r3
  IN  [score |-> Clamp(r4.score), cues |-> r4.cues]

\* scoreDeadBug with the spine band of scoreBirdDog, [160, 200].
scoreDeadBug_BirdDogSpine(array) ==
  LET m  == LimbMeasure(array)
      r1 == IF m.leftArmAngle > Deg(190) \/ m.leftArmAngle < Deg(160)
              THEN Fail(Start, "Keep arm extended, parallel to ground.", 15)
              ELSE Start
      r2 == IF m.rightLegAngle > Deg(190) \/ m.rightLegAngle < Deg(160)
              THEN Fail(r1, "Extend leg fully, keep lower back pressed.", 15)
              ELSE r1
      r3 == IF m.spineAngle < Deg(160) \/ m.spineAngle > Deg(200)
              THEN Fail(r2,
                     "Maintain a neutral spine. Press lower back into ground.",
                     20)
              ELSE r2
      r4 == IF m.hipTilt > 15
              THEN Fail(r3, "Keep hips level and stable.", 10) ELSE r3
  IN  [score |-> Clamp(r4.score), cues |-> r4.cues]

\* scoreDeadBug (scoreDeadBug.ts): its checks, in the order of the code.
scoreDeadBug(array) ==
  LET m  == LimbMeasure(array)
      r1 == IF m.leftArmAngle > Deg(190) \/ m.leftArmAngle < Deg(160)
              THEN Fail(Start, "Keep arm extended, parallel to ground.", 15)
              ELSE Start
      r2 == IF m.rightLegAngle > Deg(190) \/ m.rightLegAngle < Deg(160)
              THEN Fail(r1, "Extend leg fully, keep lower back pressed.", 15)
              ELSE r1
      r3 == IF m.spineAngle < Deg(150) \/ m.spineAngle > Deg(210)
              THEN Fail(r2,
                     "Maintain a neutral spine. Press lower back into ground.",
                     20)
              ELSE r2
      r4 == IF m.hipTilt > 15
              THEN Fail(r3, "Keep hips level and stable.", 10) ELSE r3
  IN  [score |-> Clamp(r4.score), cues |-> r4.cues]

\* WalkingMeasure with the stride deviation signed: a short stride is never
\* more than 50 above the ideal.
WalkingMeasure_SignedStride(array) ==
  LET ankleL == get(array, "left_ankle")
      ankleR == get(array, "right_ankle")
      kneeL  == get(array, "left_knee")
      hipL   == get(array, "left_hip")
      hipR   == get(array, "right_hip")
      shoulderL == get(array, "left_shoulder")
      earL   == get(array, "left_ear")
      strideLength == Abs(ankleL.x - ankleR.x)
      idealStrideLength == 100
  IN  [spineAngle        |-> AngleDeg(earL, shoulderL, hipL),
       hipLevelDiff      |-> Abs(hipL.y - hipR.y),
       kneeTrackingAngle |-> AngleDeg(hipL, kneeL, ankleL),
       strideDiff        |-> strideLength - idealStrideLength]

\* scoreWalkingPosture (scoreWalkingPosture.ts): what it measures.
WalkingMeasure(array) ==
  LET ankleL == get(array, "left_ankle")
      ankleR == get(array, "right_ankle")
      kneeL  == get(array, "left_knee")
      hipL   == get(array, "left_hip")
      hipR   == get(array, "right_hip")
      shoulderL == get(array, "left_shoulder")
      earL   == get(array, "left_ear")
      strideLength == Abs(ankleL.x - ankleR.x)
      idealStrideLength == 100
  IN  [spineAngle        |-> AngleDeg(earL, shoulderL, hipL),
       hipLevelDiff      |-> Abs(hipL.y - hipR.y),
       kneeTrackingAngle |-> AngleDeg(hipL, kneeL, ankleL),
       strideDiff        |-> Abs(strideLength - idealStrideLength)]

\* Recommend with the first breakpoint inclusive: 50 falls in the lowest tier.
Recommend_Inclusive(score) ==
  IF score <= 50
    THEN [exercises |-> << "Hip Mobility Stretches", "Core Strengthening",
                           "Glute Activation Exercises",
                           "Balance and Stability Training" >>,
          duration  |-> 20,
          frequency |-> "Daily for 2-3 weeks"]
  ELSE IF score < 75
    THEN [exercises |-> << "Gentle Spine Mobility", "Hip Flexor Stretches",
                           "Walking Technique Drills" >>,
          duration  |-> 15,
          frequency |-> "4-5 times per week"]
  ELSE   [exercises |-> << "Maintenance Stretches", "Light Mobility Work" >>,
          duration  |-> 10,
          frequency |-> "2-3 times per week"]

\* Recommend with the lowest tier reaching up to 60.
Recommend_Below60(score) ==
  IF score < 60
    THEN [exercises |-> << "Hip Mobility Stretches", "Core Strengthening",
                           "Glute Activation Exercises",
                           "Balance and Stability Training" >>,
          duration  |-> 20,
          frequency |-> "Daily for 2-3 weeks"]
  ELSE IF score < 75
    THEN [exercises |-> << "Gentle Spine Mobility", "Hip Flexor Stretches",
                           "Walking Technique Drills" >>,
          duration  |-> 15,
          frequency |-> "4-5 times per week"]
  ELSE   [exercises |-> << "Maintenance Stretches", "Light Mobility Work" >>,
          duration  |-> 10,
          frequency |-> "2-3 times per week"]

\* The recommendation bundle chosen from the score (before the clamp).
Recommend(score) ==
  IF score < 50
    THEN [exercises |-> << "Hip Mobility Stretches", "Core Strengthening",
                           "Glute Activation Exercises",
                           "Balance and Stability Training" >>,
          duration  |-> 20,
          frequency |-> "Daily for 2-3 weeks"]
  ELSE IF score < 75
    THEN [exercises |-> << "Gentle Spine Mobility", "Hip Flexor Stretches",
                           "Walking Technique Drills" >>,
          duration  |-> 15,
          frequency |-> "4-5 times per week"]
  ELSE   [exercises |-> << "Maintenance Stretches", "Light Mobility Work" >>,
          duration  |-> 10,
          frequency |-> "2-3 times per week"]

\* scoreWalkingPosture: its checks, in the order of the code.
scoreWalkingPosture(array) ==
  LET m  == WalkingMeasure(array)
      r1 == IF m.spineAngle < Deg(170) \/ m.spineAngle > Deg(190)
              THEN Fail(Start,
                     "Maintain a neutral spine. Keep head aligned with shoulders.",
                     20)
              ELSE Start
      r2 == IF m.hipLevelDiff > 30
              THEN Fail(r1,
                     "Keep hips level. Avoid tilting to one side while walking.",
                     15)
              ELSE r1
      r3 == IF m.kneeTrackingAngle < Deg(160) \/ m.kneeTrackingAngle > Deg(200)
              THEN Fail(r2,
                     "Align knees properly. Avoid inward or outward knee rotation.",
                     15)
              ELSE r2
      r4 == IF m.strideDiff > 50
              THEN Fail(r3,
                     "Maintain consistent stride length. Avoid overstriding or short steps.",
                     10)
              ELSE r3
  IN  [score |-> Clamp(r4.score), cues |-> r4.cues,
       recommendations |-> Recommend(r4.score)]

---------------------------------------------------------------------------
(* Visibility validators                                                   *)

\* kp.score ?? 0, in hundredths.
Confidence(kp) == IF "score" \in DOMAIN kp THEN kp.score ELSE 0

requiredJoints ==
  << "left_shoulder", "right_shoulder", "left_hip", "right_hip",
     "left_knee", "right_knee", "left_ankle", "right_ankle" >>

\* MissingJoints with a confidence equal to the threshold counted as visible.
MissingJoints_AtLeast(array, threshold) ==
  SelectSeq(requiredJoints,
            LAMBDA jointName :
              ~\E i \in DOMAIN array :
                 HasName(array[i], jointName) /\ Confidence(array[i]) >= threshold)

\* requiredJoints.filter(j => !kps.some(kp => kp.name === j &&
\* (kp.score ?? 0) > threshold)).
MissingJoints(array, threshold) ==
  SelectSeq(requiredJoints,
            LAMBDA jointName :
              ~\E i \in DOMAIN array :
                 HasName(array[i], jointName) /\ Confidence(array[i]) > threshold)

\* checkJointVisibility calling a frame visible when every keypoint it holds
\* is confident (so a frame holding none is visible).
checkJointVisibility_EveryKeypoint(array) ==
  LET missingJoints == MissingJoints(array, 45)
  IN  [allVisible |-> \A i \in DOMAIN array : Confidence(array[i]) > 45,
       missingJoints |-> missingJoints]

\* checkJointVisibility (PoseCoach.tsx): confidence above 0.45.
checkJointVisibility(array) ==
  LET missingJoints == MissingJoints(array, 45)
  IN  [allVisible |-> Len(missingJoints) = 0, missingJoints |-> missingJoints]

\* getKeypoint reading only keypoints whose confidence is above 0.5.
getKeypoint_Confident(array, name) ==
  LET found == { i \in DOMAIN array :
                   HasName(array[i], name) /\ Confidence(array[i]) > 50 }
  IN  IF found = {} THEN [x |-> 0, y |-> 0, score |-> 0]
      ELSE array[CHOOSE i \in found : \A j \in found : i <= j]

\* getKeypoint of checkFullBodyVisibility: the first keypoint of that name,
\* or a placeholder at the origin with confidence 0.
getKeypoint(array, name) ==
  LET found == { i \in DOMAIN array : HasName(array[i], name) }
  IN  IF found = {} THEN [x |-> 0, y |-> 0, score |-> 0]
      ELSE array[CHOOSE i \in found : \A j \in found : i <= j]

\* checkFullBodyVisibility (ExerciseTracker.tsx): confidence above 0.5, and
\* the too-close heuristic.  verticalDistance2 is twice the code's
\* verticalDistance (the two means are not halved), compared with twice 100.
checkFullBodyVisibility(array) ==
  LET missingBodyParts == MissingJoints(array, 50)
      shoulderL == getKeypoint(array, "left_shoulder")
      shoulderR == getKeypoint(array, "right_shoulder")
      hipL == getKeypoint(array, "left_hip")
      hipR == getKeypoint(array, "right_hip")
      verticalDistance2 == Abs((shoulderL.y + shoulderR.y) - (hipL.y + hipR.y))
  IN  [isFullBodyVisible |-> Len(missingBodyParts) = 0,
       missingBodyParts  |-> missingBodyParts,
       isTooClose        |-> verticalDistance2 < 2 * 100]

---------------------------------------------------------------------------
(* The pose source: the frames the engine is applied to                    *)

\* The landmarks the engine reads, in the order the pose model lists them.
Landmarks ==
  << "left_ear", "left_shoulder", "right_shoulder", "left_elbow",
     "left_wrist", "left_hip", "right_hip", "left_knee", "right_knee",
     "left_ankle", "right_ankle" >>

Pt(px, py) == [x |-> px, y |-> py]

\* Candidate positions of a subject seen from the side: hip at (160, 180),
\* knee at (160, 240), both shoulders at one point, the right hip lower than
\* the left by the tilt, the two ankles placed independently.  The ear and
\* the wrist move together: no function reads both.
ShoulderAt == { Pt(160, 60), Pt(205, 80), Pt(222, 80), Pt(265, 120),
                Pt(280, 185) }
HeadArmAt  == { [ear |-> Pt(160, 20), wrist |-> Pt(160, 160)],
                [ear |-> Pt(222, 22), wrist |-> Pt(120, 155)] }
HipTilts   == { 5, 15, 16, 20, 21, 30, 31 }
AnkleLAt   == { Pt(160, 300), Pt(176, 300), Pt(194, 300), Pt(210, 300) }
AnkleRAt   == { Pt(160, 300), Pt(176, 300), Pt(194, 300), Pt(210, 300),
                Pt(260, 300), Pt(310, 300), Pt(311, 300) }

\* A posture: the position of every landmark.
Postures ==
  { [left_ear       |-> u.ear,
     left_shoulder  |-> s,
     right_shoulder |-> s,
     left_elbow     |-> Pt(160, 110),
     left_wrist     |-> u.wrist,
     left_hip       |-> Pt(160, 180),
     right_hip      |-> Pt(160, 180 + t),
     left_knee      |-> Pt(160, 240),
     right_knee     |-> Pt(160, 240),
     left_ankle     |-> aL,
     right_ankle    |-> aR] :
     u \in HeadArmAt, s \in ShoulderAt, t \in HipTilts,
     aL \in AnkleLAt, aR \in AnkleRAt }

\* What the pose model reports of one landmark: no keypoint of that name, a
\* keypoint without a score field, or a keypoint with a confidence.
Absent == [kind |-> "absent"]
NoScore == [kind |-> "noscore"]
Scored(c) == [kind |-> "scored", score |-> c]
Detections ==
  { Absent, NoScore, Scored(45), Scored(46), Scored(50), Scored(51), Scored(90) }

\* The keypoint array for a posture and a detection of each landmark.
RECURSIVE FrameFrom(_, _, _)
FrameFrom(posture, det, i) ==
  IF i > Len(Landmarks) THEN << >>
  ELSE LET name == Landmarks[i]
           rest == FrameFrom(posture, det, i + 1)
       IN  IF det[name].kind = "absent" THEN rest
           ELSE IF det[name].kind = "noscore"
             THEN << [name |-> name, x |-> posture[name].x,
                      y |-> posture[name].y] >> \o rest
           ELSE << [name |-> name, x |-> posture[name].x,
                    y |-> posture[name].y, score |-> det[name].score] >> \o rest

LandmarkSet == { Landmarks[i] : i \in DOMAIN Landmarks }

AllDetected == [n \in LandmarkSet |-> Scored(90)]

RequiredSet == { requiredJoints[i] : i \in DOMAIN requiredJoints }

\* At most MaxDegraded required joints are reported other than with
\* confidence 0.90.
MaxDegraded == 1

DegradedDetections ==
  UNION { { [n \in LandmarkSet |-> IF n \in D THEN f[n] ELSE Scored(90)] :
              f \in [D -> Detections \ { Scored(90) }] } :
          D \in { E \in SUBSET RequiredSet : Cardinality(E) <= MaxDegraded } }

\* Two postures on which the detections vary: upright, and hinged forward.
DetectionPostures ==
  { p \in Postures :
      /\ p.left_ear = Pt(160, 20)
      /\ p.left_shoulder \in { Pt(160, 60), Pt(265, 120) }
      /\ p.right_hip = Pt(160, 185)
      /\ p.left_ankle = Pt(160, 300) /\ p.right_ankle = Pt(160, 300) }

\* Any subset of the required joints present, the other landmarks present.
SubsetDetections ==
  { [n \in LandmarkSet |-> IF n \in gone THEN Absent ELSE Scored(90)] :
      gone \in SUBSET RequiredSet }

\* The frames: every posture fully detected, the two detection postures with
\* degraded and with missing joints, and the empty array (no subject).
Frames ==
  { FrameFrom(p, AllDetected, 1) : p \in Postures }
  \cup { FrameFrom(p, det, 1) : p \in DetectionPostures, det \in DegradedDetections }
  \cup { FrameFrom(p, det, 1) : p \in DetectionPostures, det \in SubsetDetections }
  \cup { << >> }

---------------------------------------------------------------------------
(* The state machine                                                       *)

\* A frame has arrived and no function has been applied to it yet.
\* No component is mounted: only a function is applied to its argument.
NoUI ==
  /\ symptoms = "none"
  /\ runner = "none" /\ init = "none"
  /\ comp = "none"
  /\ mode = "none"
  /\ detector = FALSE
  /\ loops = << >>
  /\ current = 0
  /\ display = "none"
  /\ updated = "none"
  /\ app = "none"
  /\ panel = "none"
  /\ frame = "none"

Init ==
  /\ kps \in Frames
  /\ fn = "none"
  /\ out = "none"
  /\ NoUI

CallScoreHipHinge ==
  /\ fn' = "scoreHipHinge"
  /\ out' = scoreHipHinge(kps)
  /\ UNCHANGED <<kps, uiVars>>

CallScorePlank ==
  /\ fn' = "scorePlank"
  /\ out' = scorePlank(kps)
  /\ UNCHANGED <<kps, uiVars>>

CallScoreBirdDog ==
  /\ fn' = "scoreBirdDog"
  /\ out' = scoreBirdDog(kps)
  /\ UNCHANGED <<kps, uiVars>>

CallScoreDeadBug ==
  /\ fn' = "scoreDeadBug"
  /\ out' = scoreDeadBug(kps)
  /\ UNCHANGED <<kps, uiVars>>

CallScoreWalkingPosture ==
  /\ fn' = "scoreWalkingPosture"
  /\ out' = scoreWalkingPosture(kps)
  /\ UNCHANGED <<kps, uiVars>>

CallCheckJointVisibility ==
  /\ fn' = "checkJointVisibility"
  /\ out' = checkJointVisibility(kps)
  /\ UNCHANGED <<kps, uiVars>>

CallCheckFullBodyVisibility ==
  /\ fn' = "checkFullBodyVisibility"
  /\ out' = checkFullBodyVisibility(kps)
  /\ UNCHANGED <<kps, uiVars>>

Next ==
  \/ CallScoreHipHinge
  \/ CallScorePlank
  \/ CallScoreBirdDog
  \/ CallScoreDeadBug
  \/ CallScoreWalkingPosture
  \/ CallCheckJointVisibility
  \/ CallCheckFullBodyVisibility

Spec == Init /\ [][Next]_vars

---------------------------------------------------------------------------
(* Properties                                                              *)

Evaluators ==
  { "scoreHipHinge", "scorePlank", "scoreBirdDog", "scoreDeadBug",
    "scoreWalkingPosture" }

\* C1: whatever the keypoint array (any landmarks missing, the empty array
\* included), the score an evaluator returns is an integer from 0 to 100.
ScoreInRange == fn \in Evaluators => out.score \in 0 .. 100

\* C1 witness: scoreWalkingPosture applied to the empty array, where three of
\* its four checks fail.
ScoreInRange_Witness ==
  kps = << >> /\ fn = "scoreWalkingPosture" /\ out.score = 55

\* The rule table of an evaluator for a frame: its checks in order, each with
\* whether it failed on the frame, its cue and its penalty.
Check(failed, cue, penalty) ==
  [failed |-> failed, cue |-> cue, penalty |-> penalty]

RuleTable(f, array) ==
  IF f = "scoreHipHinge" THEN
    LET m == HipHingeMeasure(array)
    IN  << Check(m.kneeAngle < Deg(155), "Less knee bend - micro-bend only.", 15),
           Check(m.trunk > Deg(165), "Push hips back; hinge more.", 15),
           Check(m.trunk < Deg(95), "Don't overfold; limit range.", 10),
           Check(m.hipTilt > 20, "Level your hips.", 10) >>
  ELSE IF f = "scorePlank" THEN
    LET m == PlankMeasure(array)
    IN  << Check(m.trunk < Deg(165), "Lift chest / tuck ribs - keep trunk long.", 15),
           Check(m.trunk > Deg(185), "Don't pike - keep hips level.", 15),
           Check(m.leg < Deg(165), "Straighten legs - press heels back.", 10),
           Check(m.hipTilt > 15, "Level your hips.", 10) >>
  ELSE IF f = "scoreBirdDog" THEN
    LET m == LimbMeasure(array)
    IN  << Check(m.leftArmAngle < Deg(160) \/ m.leftArmAngle > Deg(180),
                 "Keep arm straight but not locked.", 15),
           Check(m.rightLegAngle < Deg(170) \/ m.rightLegAngle > Deg(190),
                 "Extend leg fully, keep it in line with hip.", 15),
           Check(m.spineAngle < Deg(160) \/ m.spineAngle > Deg(200),
                 "Maintain a neutral spine. Keep back flat.", 20),
           Check(m.hipTilt > 20, "Keep hips level and stable.", 10) >>
  ELSE IF f = "scoreDeadBug" THEN
    LET m == LimbMeasure(array)
    IN  << Check(m.leftArmAngle < Deg(160) \/ m.leftArmAngle > Deg(190),
                 "Keep arm extended, parallel to ground.", 15),
           Check(m.rightLegAngle < Deg(160) \/ m.rightLegAngle > Deg(190),
                 "Extend leg fully, keep lower back pressed.", 15),
           Check(m.spineAngle < Deg(150) \/ m.spineAngle > Deg(210),
                 "Maintain a neutral spine. Press lower back into ground.", 20),
           Check(m.hipTilt > 15, "Keep hips level and stable.", 10) >>
  ELSE
    LET m == WalkingMeasure(array)
    IN  << Check(m.spineAngle < Deg(170) \/ m.spineAngle > Deg(190),
                 "Maintain a neutral spine. Keep head aligned with shoulders.", 20),
           Check(m.hipLevelDiff > 30,
                 "Keep hips level. Avoid tilting to one side while walking.", 15),
           Check(m.kneeTrackingAngle < Deg(160) \/ m.kneeTrackingAngle > Deg(200),
                 "Align knees properly. Avoid inward or outward knee rotation.", 15),
           Check(m.strideDiff > 50,
                 "Maintain consistent stride length. Avoid overstriding or short steps.",
                 10) >>

\* The cues of the failed checks of a table, in the table's order.
RECURSIVE FailedCues(_)
FailedCues(table) ==
  IF table = << >> THEN << >>
  ELSE (IF Head(table).failed THEN << Head(table).cue >> ELSE << >>)
         \o FailedCues(Tail(table))

\* The sum of the penalties of the failed checks of a table.
RECURSIVE FailedPenalties(_)
FailedPenalties(table) ==
  IF table = << >> THEN 0
  ELSE (IF Head(table).failed THEN Head(table).penalty ELSE 0)
         + FailedPenalties(Tail(table))

NumFailed(table) == Cardinality({ i \in DOMAIN table : table[i].failed })

\* C2: for every evaluator and every frame, the score is 100 minus the
\* penalties of exactly the checks that failed, and the cues are the cues of
\* exactly those checks, one each, in the order of the evaluator's checks.
ScoreIsSumOfPenalties ==
  fn \in Evaluators =>
    LET table == RuleTable(fn, kps)
    IN  /\ out.score = 100 - FailedPenalties(table)
        /\ out.cues = FailedCues(table)
        /\ Len(out.cues) = NumFailed(table)

\* C2 witness: scoreBirdDog with all four checks failed: four cues, and
\* 100 - 15 - 15 - 20 - 10 = 40.
ScoreIsSumOfPenalties_Witness ==
  /\ fn = "scoreBirdDog"
  /\ NumFailed(RuleTable(fn, kps)) = 4
  /\ Len(out.cues) = 4
  /\ out.score = 40

B(b) == IF b THEN 1 ELSE 0

InSeq(e, seq) == \E i \in DOMAIN seq : seq[i] = e

\* An angle of n degrees to the resolution of the model: from n up to, not
\* including, n + 1.
About(angle, n) == Deg(n) <= angle /\ angle < Deg(n + 1)

\* C3: scoreHipHinge as a function of trunk angle, mean knee angle and hip
\* tilt: knee < 155 costs 15 with the cue "Less knee bend - micro-bend only.",
\* trunk > 165 costs 15, trunk < 95 costs 10, tilt > 20 costs 10, all strict.
\* Trunk 120, knee 165, tilt 5 scores 100 with no cue; knee 140 with the rest
\* passing scores 85 with exactly the knee cue.
HipHingeThresholds ==
  fn = "scoreHipHinge" =>
    LET m == HipHingeMeasure(kps)
    IN  /\ InSeq("Less knee bend - micro-bend only.", out.cues)
             <=> m.kneeAngle < Deg(155)
        /\ InSeq("Push hips back; hinge more.", out.cues) <=> m.trunk > Deg(165)
        /\ InSeq("Don't overfold; limit range.", out.cues) <=> m.trunk < Deg(95)
        /\ InSeq("Level your hips.", out.cues) <=> m.hipTilt > 20
        /\ out.score = 100 - 15 * B(m.kneeAngle < Deg(155))
                           - 15 * B(m.trunk > Deg(165))
                           - 10 * B(m.trunk < Deg(95))
                           - 10 * B(m.hipTilt > 20)
        /\ (About(m.trunk, 120) /\ About(m.kneeAngle, 165) /\ m.hipTilt = 5)
             => out = [score |-> 100, cues |-> << >>]
        /\ ( /\ About(m.kneeAngle, 140)
             /\ m.trunk >= Deg(95) /\ m.trunk <= Deg(165) /\ m.hipTilt <= 20 )
             => out = [score |-> 85,
                       cues |-> << "Less knee bend - micro-bend only." >>]

\* C3 witness: knee 140, trunk 120, tilt 5: score 85 and the knee cue alone.
HipHingeThresholds_Witness ==
  /\ fn = "scoreHipHinge"
  /\ About(HipHingeMeasure(kps).kneeAngle, 140)
  /\ About(HipHingeMeasure(kps).trunk, 120)
  /\ HipHingeMeasure(kps).hipTilt = 5
  /\ out = [score |-> 85, cues |-> << "Less knee bend - micro-bend only." >>]

\* The other scenario of C3: trunk 120, knee 165, tilt 5 scores 100.
HipHingeThresholds_WitnessClean ==
  /\ fn = "scoreHipHinge"
  /\ About(HipHingeMeasure(kps).trunk, 120)
  /\ About(HipHingeMeasure(kps).kneeAngle, 165)
  /\ HipHingeMeasure(kps).hipTilt = 5
  /\ out = [score |-> 100, cues |-> << >>]

\* The place of a cue in scorePlank's order of checks.
PlankRank(cue) ==
  IF cue = "Lift chest / tuck ribs - keep trunk long." THEN 1
  ELSE IF cue = "Don't pike - keep hips level." THEN 2
  ELSE IF cue = "Straighten legs - press heels back." THEN 3
  ELSE IF cue = "Level your hips." THEN 4
  ELSE 0

\* C4: scorePlank with trunk 150, leg 150 and tilt 20 (all three failing)
\* returns 65 and the trunk, leg and hip-tilt cues in that order; on every
\* frame the cues come in the order trunk, (pike,) leg, hip tilt.
PlankOrder ==
  fn = "scorePlank" =>
    LET m == PlankMeasure(kps)
    IN  /\ (m.trunk < Deg(165) /\ m.leg < Deg(165) /\ m.hipTilt > 15)
             => out = [score |-> 65,
                       cues  |-> << "Lift chest / tuck ribs - keep trunk long.",
                                    "Straighten legs - press heels back.",
                                    "Level your hips." >>]
        /\ \A i, j \in DOMAIN out.cues :
             i < j => ( /\ PlankRank(out.cues[i]) > 0
                        /\ PlankRank(out.cues[i]) < PlankRank(out.cues[j]) )

\* C4 witness: the scenario itself.
PlankOrder_Witness ==
  /\ fn = "scorePlank"
  /\ About(PlankMeasure(kps).trunk, 150)
  /\ About(PlankMeasure(kps).leg, 150)
  /\ PlankMeasure(kps).hipTilt = 20
  /\ out.score = 65
  /\ Len(out.cues) = 3

\* C5: scoreBirdDog deducts 15 iff the left arm angle is outside [160, 180],
\* 15 iff the right leg angle is outside [170, 190], 20 iff the spine angle is
\* outside [160, 200] and 10 iff the hip height difference exceeds 20; a value
\* on a band boundary (a tilt of exactly 20) incurs no deduction.
BirdDogThresholds ==
  fn = "scoreBirdDog" =>
    LET m   == LimbMeasure(kps)
        arm == ~(Deg(160) <= m.leftArmAngle /\ m.leftArmAngle <= Deg(180))
        leg == ~(Deg(170) <= m.rightLegAngle /\ m.rightLegAngle <= Deg(190))
        spine == ~(Deg(160) <= m.spineAngle /\ m.spineAngle <= Deg(200))
        tilt  == m.hipTilt > 20
    IN  /\ InSeq("Keep arm straight but not locked.", out.cues) <=> arm
        /\ InSeq("Extend leg fully, keep it in line with hip.", out.cues) <=> leg
        /\ InSeq("Maintain a neutral spine. Keep back flat.", out.cues) <=> spine
        /\ InSeq("Keep hips level and stable.", out.cues) <=> tilt
        /\ out.score = 100 - 15 * B(arm) - 15 * B(leg) - 20 * B(spine)
                           - 10 * B(tilt)
        /\ Len(out.cues) = B(arm) + B(leg) + B(spine) + B(tilt)

\* C5 witness: a tilt of exactly 20 and a leg at 165 (inside the dead-bug band,
\* outside the bird-dog band): the leg alone is deducted.
BirdDogThresholds_Witness ==
  /\ fn = "scoreBirdDog"
  /\ LimbMeasure(kps).hipTilt = 20
  /\ About(LimbMeasure(kps).rightLegAngle, 165)
  /\ out = [score |-> 85,
            cues  |-> << "Extend leg fully, keep it in line with hip." >>]

\* C6: scoreDeadBug deducts 15 iff the left arm angle is outside [160, 190],
\* 15 iff the right leg angle is outside [160, 190], 20 iff the spine angle is
\* outside [150, 210] and 10 iff the hip height difference exceeds 15; a value
\* on a band boundary (a tilt of exactly 15) incurs no deduction.
DeadBugThresholds ==
  fn = "scoreDeadBug" =>
    LET m   == LimbMeasure(kps)
        arm == ~(Deg(160) <= m.leftArmAngle /\ m.leftArmAngle <= Deg(190))
        leg == ~(Deg(160) <= m.rightLegAngle /\ m.rightLegAngle <= Deg(190))
        spine == ~(Deg(150) <= m.spineAngle /\ m.spineAngle <= Deg(210))
        tilt  == m.hipTilt > 15
    IN  /\ InSeq("Keep arm extended, parallel to ground.", out.cues) <=> arm
        /\ InSeq("Extend leg fully, keep lower back pressed.", out.cues) <=> leg
        /\ InSeq("Maintain a neutral spine. Press lower back into ground.",
                 out.cues) <=> spine
        /\ InSeq("Keep hips level and stable.", out.cues) <=> tilt
        /\ out.score = 100 - 15 * B(arm) - 15 * B(leg) - 20 * B(spine)
                           - 10 * B(tilt)
        /\ Len(out.cues) = B(arm) + B(leg) + B(spine) + B(tilt)

\* C6 witness: a tilt of exactly 15, a spine at 155, a leg at 165 and an arm
\* at 165, all of them inside the dead-bug bands: nothing is deducted.
DeadBugThresholds_Witness ==
  /\ fn = "scoreDeadBug"
  /\ LimbMeasure(kps).hipTilt = 15
  /\ About(LimbMeasure(kps).spineAngle, 155)
  /\ About(LimbMeasure(kps).rightLegAngle, 165)
  /\ About(LimbMeasure(kps).leftArmAngle, 165)
  /\ out = [score |-> 100, cues |-> << >>]

\* The place of a cue in scoreWalkingPosture's order of checks.
WalkingRank(cue) ==
  IF cue = "Maintain a neutral spine. Keep head aligned with shoulders." THEN 1
  ELSE IF cue = "Keep hips level. Avoid tilting to one side while walking."
    THEN 2
  ELSE IF cue = "Align knees properly. Avoid inward or outward knee rotation."
    THEN 3
  ELSE IF cue = "Maintain consistent stride length. Avoid overstriding or short steps."
    THEN 4
  ELSE 0

\* The x coordinate the evaluators read for a landmark: that of the first
\* keypoint of the name, 0 when there is none.
XOf(array, name) ==
  IF \E i \in DOMAIN array : HasName(array[i], name)
    THEN array[CHOOSE i \in DOMAIN array :
                 /\ HasName(array[i], name)
                 /\ \A j \in 1 .. (i - 1) : ~HasName(array[j], name)].x
    ELSE 0

\* C7: scoreWalkingPosture deducts 20 iff the spine angle (left ear, shoulder,
\* hip) is outside [170, 190], 15 iff the hip height difference exceeds 30,
\* 15 iff the knee-tracking angle (left hip, knee, ankle) is outside
\* [160, 200] and 10 iff | |left ankle x - right ankle x| - 100 | exceeds 50;
\* the cues are appended in that order.
WalkingThresholds ==
  fn = "scoreWalkingPosture" =>
    LET m     == WalkingMeasure(kps)
        spine == ~(Deg(170) <= m.spineAngle /\ m.spineAngle <= Deg(190))
        hips  == m.hipLevelDiff > 30
        knee  == ~(Deg(160) <= m.kneeTrackingAngle
                     /\ m.kneeTrackingAngle <= Deg(200))
        stride == Abs(Abs(XOf(kps, "left_ankle") - XOf(kps, "right_ankle"))
                        - 100) > 50
    IN  /\ (\E i \in DOMAIN out.cues : WalkingRank(out.cues[i]) = 1) <=> spine
        /\ (\E i \in DOMAIN out.cues : WalkingRank(out.cues[i]) = 2) <=> hips
        /\ (\E i \in DOMAIN out.cues : WalkingRank(out.cues[i]) = 3) <=> knee
        /\ (\E i \in DOMAIN out.cues : WalkingRank(out.cues[i]) = 4) <=> stride
        /\ out.score = 100 - 20 * B(spine) - 15 * B(hips) - 15 * B(knee)
                           - 10 * B(stride)
        /\ \A i, j \in DOMAIN out.cues :
             i < j => ( /\ WalkingRank(out.cues[i]) > 0
                        /\ WalkingRank(out.cues[i]) < WalkingRank(out.cues[j]) )

\* C7 witness: all four checks fail (a stride of 0 is 100 short of the ideal):
\* 40 and the four cues.
WalkingThresholds_Witness ==
  /\ fn = "scoreWalkingPosture"
  /\ kps # << >>
  /\ XOf(kps, "left_ankle") = XOf(kps, "right_ankle")
  /\ WalkingMeasure(kps).hipLevelDiff = 31
  /\ out.score = 40
  /\ Len(out.cues) = 4

\* C7, boundaries: a hip difference of exactly 30 and a stride deviation of
\* exactly 50 are not deducted.
WalkingThresholds_WitnessBoundary ==
  /\ fn = "scoreWalkingPosture"
  /\ WalkingMeasure(kps).hipLevelDiff = 30
  /\ WalkingMeasure(kps).strideDiff = 50
  /\ About(WalkingMeasure(kps).spineAngle, 172)
  /\ out.score = 100

\* C8: the recommendation bundle returned by scoreWalkingPosture is
\* determined by the returned score, with breakpoints at 50 and 75: below 50
\* the 4-exercise, 20-minute daily program; from 50 up to (not including) 75
\* the 3-exercise, 15-minute "4-5 times per week" program; from 75 the
\* 2-exercise, 10-minute "2-3 times per week" program.
RecommendationByScore ==
  fn = "scoreWalkingPosture" =>
    LET rec == out.recommendations
    IN  /\ out.score < 50 =>
             /\ Len(rec.exercises) = 4 /\ rec.duration = 20
             /\ rec.frequency = "Daily for 2-3 weeks"
             /\ rec.exercises[1] = "Hip Mobility Stretches"
        /\ (50 <= out.score /\ out.score < 75) =>
             /\ Len(rec.exercises) = 3 /\ rec.duration = 15
             /\ rec.frequency = "4-5 times per week"
             /\ rec.exercises[1] = "Gentle Spine Mobility"
        /\ out.score >= 75 =>
             /\ Len(rec.exercises) = 2 /\ rec.duration = 10
             /\ rec.frequency = "2-3 times per week"
             /\ rec.exercises[1] = "Maintenance Stretches"

\* C8 witness: a score of exactly 50 with the "4-5 times per week" program.
RecommendationByScore_Witness ==
  /\ fn = "scoreWalkingPosture"
  /\ out.score = 50
  /\ out.recommendations.frequency = "4-5 times per week"

\* C8, the other breakpoint: a score of exactly 75 with the maintenance
\* program.
RecommendationByScore_Witness75 ==
  /\ fn = "scoreWalkingPosture"
  /\ out.score = 75
  /\ out.recommendations.frequency = "2-3 times per week"

\* C8, the lowest tier: a score below 50 with the daily program.
RecommendationByScore_WitnessLow ==
  /\ fn = "scoreWalkingPosture"
  /\ out.score = 40
  /\ out.recommendations.frequency = "Daily for 2-3 weeks"

\* A landmark is seen: some keypoint of that name carries a score field
\* strictly above the threshold.
Seen(array, name, threshold) ==
  \E i \in DOMAIN array :
    /\ HasName(array[i], name)
    /\ "score" \in DOMAIN array[i]
    /\ array[i].score > threshold

\* The place of a landmark in the required-landmark list (0: not required).
RequiredRank(name) ==
  IF name = "left_shoulder" THEN 1 ELSE IF name = "right_shoulder" THEN 2
  ELSE IF name = "left_hip" THEN 3 ELSE IF name = "right_hip" THEN 4
  ELSE IF name = "left_knee" THEN 5 ELSE IF name = "right_knee" THEN 6
  ELSE IF name = "left_ankle" THEN 7 ELSE IF name = "right_ankle" THEN 8
  ELSE 0

\* What C9 asks of a validator's answer (visible, missing) on a frame.
ExactlyTheUnseen(array, threshold, visible, missing) ==
  LET required == { "left_shoulder", "right_shoulder", "left_hip",
                    "right_hip", "left_knee", "right_knee", "left_ankle",
                    "right_ankle" }
  IN  /\ visible <=> \A n \in required : Seen(array, n, threshold)
      /\ \A n \in required :
           InSeq(n, missing) <=> ~Seen(array, n, threshold)
      /\ \A i \in DOMAIN missing : missing[i] \in required
      /\ \A i, j \in DOMAIN missing :
           i < j => RequiredRank(missing[i]) < RequiredRank(missing[j])
      /\ visible <=> missing = << >>

\* C9: a visibility validator answers allVisible iff each of the 8 required
\* landmarks occurs in the array with confidence strictly above the threshold
\* (0.45 in checkJointVisibility, 0.5 in checkFullBodyVisibility; a missing
\* score counts as 0, a confidence equal to the threshold as missing);
\* missingJoints is exactly the required landmarks failing that, in the
\* order of the required list, and allVisible iff missingJoints is empty.
VisibilityExact ==
  /\ fn = "checkJointVisibility" =>
       ExactlyTheUnseen(kps, 45, out.allVisible, out.missingJoints)
  /\ fn = "checkFullBodyVisibility" =>
       ExactlyTheUnseen(kps, 50, out.isFullBodyVisible, out.missingBodyParts)

\* C9 witness: the only failing landmark is reported with a confidence equal
\* to the threshold, and it is the one listed.
VisibilityExact_Witness ==
  /\ fn = "checkJointVisibility"
  /\ \E i \in DOMAIN kps :
       /\ kps[i].name = "right_knee"
       /\ "score" \in DOMAIN kps[i] /\ kps[i].score = 45
  /\ out = [allVisible |-> FALSE, missingJoints |-> << "right_knee" >>]

\* C9, several missing: absent landmarks are listed in the required order.
VisibilityExact_WitnessOrder ==
  /\ fn = "checkFullBodyVisibility"
  /\ out.missingBodyParts = << "right_shoulder", "left_hip", "left_ankle" >>
  /\ ~out.isFullBodyVisible

\* C9, all seen.
VisibilityExact_WitnessAll ==
  /\ fn = "checkJointVisibility"
  /\ out = [allVisible |-> TRUE, missingJoints |-> << >>]

\* The y coordinate checkFullBodyVisibility reads for a landmark: that of
\* the first keypoint of the name whatever its confidence, 0 when none.
YOf(array, name) ==
  IF \E i \in DOMAIN array : HasName(array[i], name)
    THEN array[CHOOSE i \in DOMAIN array :
                 /\ HasName(array[i], name)
                 /\ \A j \in 1 .. (i - 1) : ~HasName(array[j], name)].y
    ELSE 0

\* | mean shoulder y - mean hip y | < 100, from the positions alone.
TooCloseByPosition(array) ==
  Abs((YOf(array, "left_shoulder") + YOf(array, "right_shoulder"))
        - (YOf(array, "left_hip") + YOf(array, "right_hip"))) < 200

\* Each combination of the two signals is the answer on some frame.
AllFourCombinations ==
  \A close \in BOOLEAN, visible \in BOOLEAN :
    \E array \in Frames :
      /\ checkFullBodyVisibility(array).isTooClose = close
      /\ checkFullBodyVisibility(array).isFullBodyVisible = visible

\* C10: in checkFullBodyVisibility the too-close signal is
\* | mean shoulder y - mean hip y | < 100 computed from the positions alone,
\* whatever the confidences, and it is independent of the missing-joints
\* signal: each of the four combinations of (isTooClose, isFullBodyVisible)
\* is the answer on some keypoint array.
TooCloseIndependent ==
  /\ fn = "checkFullBodyVisibility" =>
       out.isTooClose = TooCloseByPosition(kps)
  /\ AllFourCombinations

\* C10 witness: not too close although a shoulder is reported with a
\* confidence at the threshold (its position is still the one read), and the
\* body is not fully visible.
TooCloseIndependent_Witness ==
  /\ fn = "checkFullBodyVisibility"
  /\ \E i \in DOMAIN kps :
       /\ kps[i].name = "left_shoulder"
       /\ "score" \in DOMAIN kps[i] /\ kps[i].score = 50
       /\ kps[i].y = 60
  /\ ~out.isTooClose
  /\ ~out.isFullBodyVisible

\* C10, the other combinations: too close and fully visible; too close and
\* not fully visible; neither.
TooCloseIndependent_WitnessCloseVisible ==
  /\ fn = "checkFullBodyVisibility"
  /\ out.isTooClose /\ out.isFullBodyVisible

TooCloseIndependent_WitnessCloseHidden ==
  /\ fn = "checkFullBodyVisibility"
  /\ out.isTooClose /\ ~out.isFullBodyVisible

TooCloseIndependent_WitnessFarVisible ==
  /\ fn = "checkFullBodyVisibility"
  /\ ~out.isTooClose /\ out.isFullBodyVisible

---------------------------------------------------------------------------
(* The landmark lookups applied to arrays with repeated names             *)

\* Keypoints of two names at two positions, with and without a score, and
\* one keypoint without a name.
LookupKeypoints ==
  { [name |-> n, x |-> q.x, y |-> q.y] :
      n \in { "left_hip", "left_knee" }, q \in { Pt(10, 20), Pt(30, 40) } }
  \cup { [name |-> n, x |-> q.x, y |-> q.y, score |-> 90] :
           n \in { "left_hip", "left_knee" }, q \in { Pt(10, 20), Pt(30, 40) } }
  \cup { [x |-> 50, y |-> 60, score |-> 90] }

\* The longest array looked up.
MaxLookupLen == 3

LookupArrays == UNION { [1 .. n -> LookupKeypoints] : n \in 0 .. MaxLookupLen }

\* The names asked for; no keypoint is named "nose".
LookupNames == { "left_hip", "left_knee", "nose" }

InitLookup ==
  /\ kps \in LookupArrays
  /\ fn = "none"
  /\ out = "none"
  /\ NoUI

\* get(kps, name) of angles.ts.
CallGet ==
  \E name \in LookupNames :
    /\ fn' = "get"
    /\ out' = [name |-> name, kp |-> get(kps, name)]
    /\ UNCHANGED <<kps, uiVars>>

\* getKeypoint(name) of checkFullBodyVisibility.
CallGetKeypoint ==
  \E name \in LookupNames :
    /\ fn' = "getKeypoint"
    /\ out' = [name |-> name, kp |-> getKeypoint(kps, name)]
    /\ UNCHANGED <<kps, uiVars>>

NextLookup == CallGet \/ CallGetKeypoint

SpecLookup == InitLookup /\ [][NextLookup]_vars

\* C15: the landmark lookup returns the first keypoint in array order whose
\* name is the requested one (later ones of that name are ignored); when no
\* keypoint has the name it returns a placeholder at the origin, x = 0 and
\* y = 0, whose confidence is zero.
LookupFirstOrPlaceholder ==
  fn \in { "get", "getKeypoint" } =>
    LET named == { i \in DOMAIN kps :
                     "name" \in DOMAIN kps[i] /\ kps[i].name = out.name }
    IN  IF named = {}
          THEN /\ out.kp.x = 0 /\ out.kp.y = 0
               /\ "name" \notin DOMAIN out.kp
               /\ "score" \in DOMAIN out.kp => out.kp.score = 0
          ELSE \E i \in named :
                 /\ out.kp = kps[i]
                 /\ \A j \in named : i <= j

\* C15 witness: two keypoints of the requested name at different positions;
\* the one returned is the earlier.
LookupFirstOrPlaceholder_Witness ==
  /\ fn = "get"
  /\ Len(kps) = 3
  /\ out.name = "left_knee"
  /\ kps[1].name = "left_hip"
  /\ kps[2] = [name |-> "left_knee", x |-> 30, y |-> 40]
  /\ kps[3] = [name |-> "left_knee", x |-> 10, y |-> 20, score |-> 90]
  /\ out.kp = kps[2]

\* C15, no keypoint of the name: the placeholder at the origin.
LookupFirstOrPlaceholder_WitnessAbsent ==
  /\ fn = "get"
  /\ Len(kps) = 2
  /\ out.name = "nose"
  /\ out.kp = [x |-> 0, y |-> 0]

\* C15, getKeypoint: its placeholder carries score 0.
LookupFirstOrPlaceholder_WitnessKeypoint ==
  /\ fn = "getKeypoint"
  /\ Len(kps) = 2
  /\ out.name = "nose"
  /\ out.kp = [x |-> 0, y |-> 0, score |-> 0]

---------------------------------------------------------------------------
(* angleDeg applied to three points                                       *)

\* The points: a grid around the origin, in all four quadrants.
AngleCoords == { -4, 0, 3, 50 }

AnglePoints == { Pt(px, py) : px \in AngleCoords, py \in AngleCoords }

\* kps holds the three arguments a, b, c.
InitAngle ==
  /\ kps \in [1 .. 3 -> AnglePoints]
  /\ fn = "none"
  /\ out = "none"
  /\ NoUI

\* angleDeg(a, b, c) and angleDeg(c, b, a).
CallAngleDeg ==
  /\ fn' = "angleDeg"
  /\ out' = [abc |-> AngleDeg(kps[1], kps[2], kps[3]),
             cba |-> AngleDeg(kps[3], kps[2], kps[1])]
  /\ UNCHANGED <<kps, uiVars>>

NextAngle == CallAngleDeg

SpecAngle == InitAngle /\ [][NextAngle]_vars

\* C16: for points a, b, c with b coincident with neither a nor c,
\* angleDeg(a, b, c) = angleDeg(c, b, a) and 0 <= angleDeg(a, b, c) <= 180,
\* so that no angle compared with an evaluator's thresholds is negative or
\* above 180.
AngleSymmetricInRange ==
  (fn = "angleDeg" /\ kps[2] # kps[1] /\ kps[2] # kps[3]) =>
    /\ out.abc = out.cba
    /\ Deg(0) <= out.abc /\ out.abc <= Deg(180)

\* C16 witness: a clockwise turn of more than a right angle, both ways round.
AngleSymmetricInRange_Witness ==
  /\ fn = "angleDeg"
  /\ kps = << Pt(0, 50), Pt(0, 0), Pt(3, -4) >>
  /\ out.abc = out.cba
  /\ About(out.abc, 143)

\* C16, the ends of the range: opposite rays and coinciding rays.
AngleSymmetricInRange_WitnessStraight ==
  /\ fn = "angleDeg"
  /\ kps = << Pt(-4, 0), Pt(0, 0), Pt(50, 0) >>
  /\ About(out.abc, 179)

AngleSymmetricInRange_WitnessZero ==
  /\ fn = "angleDeg"
  /\ kps = << Pt(3, 0), Pt(0, 0), Pt(50, 0) >>
  /\ About(out.abc, 0)

---------------------------------------------------------------------------
(* Symptom screening (RightPanel's ScreeningCard, PlanModal)              *)

\* The symptom records: the four red flags, the worst pain of the range
\* input (0 to 10) and the duration in days, on either side of 8 and of 42.
PainLevels == { 0, 6, 7, 8, 10 }
Durations  == { 0, 7, 41, 42, 43 }
SymptomRecords ==
  [numbness : BOOLEAN, fever : BOOLEAN, bladderBowel : BOOLEAN,
   trauma : BOOLEAN, painWorst : PainLevels, durationDays : Durations]

\* ScreeningCard's result with the pain checked before the red flags.
ScreeningCardResult_PainFirst(s) ==
  LET red == s.bladderBowel \/ s.numbness \/ s.fever \/ s.trauma
      acute == s.durationDays < 6 * 7
      severity == s.painWorst >= 8
  IN  IF severity
        THEN [tone |-> "warn", label |-> "High pain - go gentle",
              notes |-> << "Use gentle mobility only, keep sessions short.",
                           "If pain persists/worsens, contact a clinician." >>]
      ELSE IF red
        THEN [tone |-> "bad", label |-> "See a clinician urgently",
              notes |-> << "One or more red flags selected.",
                           "Seek medical assessment before continuing exercise." >>]
      ELSE [tone |-> "good",
            label |-> IF acute THEN "Likely simple mechanical back pain"
                               ELSE "Persistent back pain pattern",
            notes |-> IF acute
              THEN << "Try daily gentle mobility + light core work.",
                      "Gradually increase activity; avoid prolonged rest." >>
              ELSE << "Consider consistent graded activity + stress/sleep support.",
                      "Book a non-urgent physio/PCP visit for a plan." >>]

\* ScreeningCard's result (RightPanel.tsx), for a symptom record.
ScreeningCardResult(s) ==
  LET red == s.bladderBowel \/ s.numbness \/ s.fever \/ s.trauma
      acute == s.durationDays < 6 * 7
      severity == s.painWorst >= 8
  IN  IF red
        THEN [tone |-> "bad", label |-> "See a clinician urgently",
              notes |-> << "One or more red flags selected.",
                           "Seek medical assessment before continuing exercise." >>]
      ELSE IF severity
        THEN [tone |-> "warn", label |-> "High pain - go gentle",
              notes |-> << "Use gentle mobility only, keep sessions short.",
                           "If pain persists/worsens, contact a clinician." >>]
      ELSE [tone |-> "good",
            label |-> IF acute THEN "Likely simple mechanical back pain"
                               ELSE "Persistent back pain pattern",
            notes |-> IF acute
              THEN << "Try daily gentle mobility + light core work.",
                      "Gradually increase activity; avoid prolonged rest." >>
              ELSE << "Consider consistent graded activity + stress/sleep support.",
                      "Book a non-urgent physio/PCP visit for a plan." >>]

\* PlanModal's screen counting the 42nd day as acute.
screen_AcuteInclusive(s) ==
  LET red == s.bladderBowel \/ s.numbness \/ s.fever \/ s.trauma
      acute == s.durationDays <= 42
      severity == s.painWorst >= 8
  IN  IF red
        THEN [tone |-> "bad", label |-> "See a clinician urgently",
              notes |-> << "Red flags selected. Seek medical assessment." >>]
      ELSE IF severity
        THEN [tone |-> "warn", label |-> "High pain - go gentle",
              notes |-> << "Short, gentle mobility only. If worsening, contact a clinician." >>]
      ELSE [tone |-> "good",
            label |-> IF acute THEN "Likely simple mechanical back pain"
                               ELSE "Persistent back pain pattern",
            notes |-> IF acute
              THEN << "Daily gentle mobility + light core.",
                      "Avoid long rest; keep moving within comfort." >>
              ELSE << "Consistent graded activity + stress/sleep support.",
                      "Consider non-urgent physio/PCP visit." >>]

\* PlanModal's screen (PlanModal.tsx), for a symptom record.
screen(s) ==
  LET red == s.bladderBowel \/ s.numbness \/ s.fever \/ s.trauma
      acute == s.durationDays < 42
      severity == s.painWorst >= 8
  IN  IF red
        THEN [tone |-> "bad", label |-> "See a clinician urgently",
              notes |-> << "Red flags selected. Seek medical assessment." >>]
      ELSE IF severity
        THEN [tone |-> "warn", label |-> "High pain - go gentle",
              notes |-> << "Short, gentle mobility only. If worsening, contact a clinician." >>]
      ELSE [tone |-> "good",
            label |-> IF acute THEN "Likely simple mechanical back pain"
                               ELSE "Persistent back pain pattern",
            notes |-> IF acute
              THEN << "Daily gentle mobility + light core.",
                      "Avoid long rest; keep moving within comfort." >>
              ELSE << "Consistent graded activity + stress/sleep support.",
                      "Consider non-urgent physio/PCP visit." >>]

\* The form has delivered a symptom record; nothing is mounted besides.
InitScreen ==
  /\ symptoms \in SymptomRecords
  /\ runner = "none" /\ init = "none"
  /\ kps = << >>
  /\ fn = "none"
  /\ out = "none"
  /\ comp = "none" /\ mode = "none" /\ detector = FALSE /\ loops = << >>
  /\ current = 0 /\ display = "none" /\ updated = "none" /\ app = "none"
  /\ panel = "none" /\ frame = "none"

\* ScreeningCard renders: its result memo is computed from the symptoms.
RenderScreeningCard ==
  /\ fn' = "ScreeningCard"
  /\ out' = ScreeningCardResult(symptoms)
  /\ UNCHANGED <<kps, uiVars>>

\* PlanModal renders: its screen memo is computed from the symptoms.
RenderPlanModal ==
  /\ fn' = "PlanModal"
  /\ out' = screen(symptoms)
  /\ UNCHANGED <<kps, uiVars>>

NextScreen == RenderScreeningCard \/ RenderPlanModal

SpecScreen == InitScreen /\ [][NextScreen]_vars

\* Some red flag is set.
RedFlag(s) == s.numbness \/ s.fever \/ s.bladderBowel \/ s.trauma

\* C20: symptom screening gives every symptom record exactly one of three
\* outcomes, by fixed priority: "See a clinician urgently" if any red flag
\* is set, whatever the pain and the duration; otherwise "High pain - go
\* gentle" if the worst pain is at least 8; otherwise the safe-to-proceed
\* tier, labelled "Likely simple mechanical back pain" when durationDays < 42
\* and "Persistent back pain pattern" when durationDays >= 42.
ScreeningPriority ==
  fn \in { "ScreeningCard", "PlanModal" } =>
    /\ RedFlag(symptoms) =>
         out.tone = "bad" /\ out.label = "See a clinician urgently"
    /\ (~RedFlag(symptoms) /\ symptoms.painWorst >= 8) =>
         out.tone = "warn" /\ out.label = "High pain - go gentle"
    /\ (~RedFlag(symptoms) /\ symptoms.painWorst < 8
          /\ symptoms.durationDays < 42) =>
         out.tone = "good" /\ out.label = "Likely simple mechanical back pain"
    /\ (~RedFlag(symptoms) /\ symptoms.painWorst < 8
          /\ symptoms.durationDays >= 42) =>
         out.tone = "good" /\ out.label = "Persistent back pain pattern"
    /\ out.tone \in { "bad", "warn", "good" }

\* C20 witness: a red flag with pain 10: the urgent outcome, not the
\* high-pain one.
ScreeningPriority_Witness ==
  /\ fn = "ScreeningCard"
  /\ symptoms.fever /\ ~symptoms.numbness
  /\ symptoms.painWorst = 10
  /\ out.label = "See a clinician urgently"

\* C20, the boundaries: pain 8 without a red flag; 41 and 42 days.
ScreeningPriority_WitnessPain ==
  /\ fn = "PlanModal"
  /\ ~RedFlag(symptoms) /\ symptoms.painWorst = 8
  /\ out.label = "High pain - go gentle"

ScreeningPriority_WitnessAcute ==
  /\ fn = "ScreeningCard"
  /\ ~RedFlag(symptoms) /\ symptoms.painWorst = 7
  /\ symptoms.durationDays = 41
  /\ out.label = "Likely simple mechanical back pain"

ScreeningPriority_WitnessPersistent ==
  /\ fn = "PlanModal"
  /\ ~RedFlag(symptoms) /\ symptoms.painWorst = 7
  /\ symptoms.durationDays = 42
  /\ out.label = "Persistent back pain pattern"

---------------------------------------------------------------------------
(* One frame through a tracker component                                  *)

\* What estimatePoses resolves to: poses[0]?.keypoints is a keypoint array,
\* or undefined when no subject is detected (poses is empty).
NoPose == [poses |-> 0]
Pose(array) == [poses |-> 1, keypoints |-> array]

\* if (kp) / if (keypoints): an array, even an empty one, is truthy.
HasKeypoints(pose) == "keypoints" \in DOMAIN pose

\* The evaluator of a name, applied.
Apply(f, array) ==
  CASE f = "scoreHipHinge"       -> scoreHipHinge(array)
    [] f = "scorePlank"          -> scorePlank(array)
    [] f = "scoreBirdDog"        -> scoreBirdDog(array)
    [] f = "scoreDeadBug"        -> scoreDeadBug(array)
    [] f = "scoreWalkingPosture" -> scoreWalkingPosture(array)

\* EXERCISES of ExerciseTracker: identifier to scoringFunction.
EXERCISES ==
  [x \in { "Hip Hinge", "Plank", "Bird Dog", "Dead Bug", "Walking Posture" } |->
     CASE x = "Hip Hinge" -> "scoreHipHinge"
       [] x = "Plank"     -> "scorePlank"
       [] x = "Bird Dog"  -> "scoreBirdDog"
       [] x = "Dead Bug"  -> "scoreDeadBug"
       [] x = "Walking Posture" -> "scoreWalkingPosture"]

\* ALL_MODES of Posher: its EXERCISES and POSTURE_MODES together.
ALL_MODES ==
  [x \in { "Hip Hinge", "Plank", "Bird Dog", "Dead Bug", "Walking" } |->
     CASE x = "Hip Hinge" -> "scoreHipHinge"
       [] x = "Plank"     -> "scorePlank"
       [] x = "Bird Dog"  -> "scoreBirdDog"
       [] x = "Dead Bug"  -> "scoreDeadBug"
       [] x = "Walking"   -> "scoreWalkingPosture"]

\* No visibility check was run on the frame.
Unchecked ==
  [checked |-> FALSE, visible |-> FALSE, missing |-> << >>,
   tooClose |-> FALSE]

\* What a frame-processing step did: which checks and evaluator ran, what
\* it handed to the state setters (set: it reached them) and whether it ended
\* in an exception.
Skipped(pose, m) ==
  [pose |-> pose, mode |-> m, processed |-> FALSE, visibility |-> Unchecked,
   fn |-> "none", result |-> [score |-> 0, cues |-> << >>], set |-> FALSE,
   threw |-> "none"]

\* The body of PoseCoach's loop for mode m (PoseCoach.tsx) up to the call of
\* the evaluator: the visibility check, then the dispatch by mode whatever
\* the check said.  fn names the evaluator the step calls; result is what it
\* delivers when it calls none.
loop(m, pose) ==
  IF ~HasKeypoints(pose) THEN Skipped(pose, m)
  ELSE
    LET v == checkJointVisibility(pose.keypoints)
    IN  [pose |-> pose, mode |-> m, processed |-> TRUE,
         visibility |-> [checked |-> TRUE, visible |-> v.allVisible,
                         missing |-> v.missingJoints, tooClose |-> FALSE],
         fn |-> IF m = "hinge" THEN "scoreHipHinge"
                ELSE IF m = "plank" THEN "scorePlank" ELSE "none",
         result |-> [score |-> 0, cues |-> << "Unsupported mode" >>],
         set |-> TRUE, threw |-> "none"]

\* The visibility check processFrame of ExerciseTracker runs.
FullBody(array) ==
  LET v == checkFullBodyVisibility(array)
  IN  [checked |-> TRUE, visible |-> v.isFullBodyVisible,
       missing |-> v.missingBodyParts, tooClose |-> v.isTooClose]

\* processFrame of ExerciseTracker for currentExercise m, given the outcome
\* of its visibility check: the evaluator is called only on a fully visible,
\* not too close frame.  An identifier outside EXERCISES makes exercise
\* undefined: exercise.scoringFunction throws before the setters on such a
\* frame, exercise.optimalPoseMarkers after them on any other.
Dispatched(m, pose, vis) ==
  [pose |-> pose, mode |-> m, processed |-> TRUE, visibility |-> vis,
   fn |-> IF vis.visible /\ ~vis.tooClose /\ m \in DOMAIN EXERCISES
            THEN EXERCISES[m] ELSE "none",
   result |-> [score |-> 0, cues |-> << "Position your full body in frame" >>],
   set |-> ~(vis.visible /\ ~vis.tooClose) \/ m \in DOMAIN EXERCISES,
   threw |-> IF m \in DOMAIN EXERCISES THEN "none" ELSE "TypeError"]

processFrame(m, pose) ==
  IF ~HasKeypoints(pose) THEN Skipped(pose, m)
  ELSE Dispatched(m, pose, FullBody(pose.keypoints))

\* processFrame of Posher for currentExercise m: no visibility check; the
\* evaluator is called whenever ALL_MODES has the identifier.
PosherProcessFrame(m, pose) ==
  IF ~HasKeypoints(pose) THEN Skipped(pose, m)
  ELSE [pose |-> pose, mode |-> m, processed |-> TRUE,
        visibility |-> Unchecked,
        fn |-> IF m \in DOMAIN ALL_MODES THEN ALL_MODES[m] ELSE "none",
        result |-> [score |-> 0,
                    cues |-> << "Position your full body in frame" >>],
        set |-> TRUE, threw |-> "none"]

\* The call of the evaluator a step dispatched to: its outcome is the result
\* the step hands on.
CallEvaluator(r) ==
  IF r.fn = "none" THEN r
  ELSE [r EXCEPT !.result = Apply(r.fn, r.pose.keypoints)]

\* The mounted trackers: PoseCoach mounted by App (no props) or by
\* ExerciseRunner (mode and onUpdate props), ExerciseTracker, Posher.
Components == { "App", "ExerciseRunner", "ExerciseTracker", "Posher" }

IsPoseCoach(c) == c \in { "App", "ExerciseRunner" }

\* The mode identifiers a component's dispatch knows.
Registry(c) ==
  IF IsPoseCoach(c) THEN { "hinge", "plank" }
  ELSE IF c = "ExerciseTracker" THEN DOMAIN EXERCISES
  ELSE DOMAIN ALL_MODES

\* One frame through component c in mode m.
Step(c, m, pose) ==
  CallEvaluator(IF IsPoseCoach(c) THEN loop(m, pose)
                ELSE IF c = "ExerciseTracker" THEN processFrame(m, pose)
                ELSE PosherProcessFrame(m, pose))

\* Frames for the trackers: a subject upright and far enough, hinged forward
\* (shoulders within 100 px of the hips), and upright in mid-stride.
Upright ==
  CHOOSE p \in DetectionPostures : p.left_shoulder = Pt(160, 60)
Hinged ==
  CHOOSE p \in DetectionPostures : p.left_shoulder = Pt(265, 120)
Striding ==
  CHOOSE p \in Postures :
    /\ p.left_ear = Pt(160, 20) /\ p.left_shoulder = Pt(160, 60)
    /\ p.right_hip = Pt(160, 185)
    /\ p.left_ankle = Pt(160, 300) /\ p.right_ankle = Pt(260, 300)

\* The arrays a detected subject yields: none at all, the three postures
\* fully detected, one ankle absent, one knee at confidence 0.46.
LoopFrames ==
  { << >>,
    FrameFrom(Upright, AllDetected, 1),
    FrameFrom(Hinged, AllDetected, 1),
    FrameFrom(Striding, AllDetected, 1),
    FrameFrom(Upright, [AllDetected EXCEPT !["left_ankle"] = Absent], 1),
    FrameFrom(Upright, [AllDetected EXCEPT !["right_knee"] = Scored(46)], 1) }

---------------------------------------------------------------------------
(* The dispatch by mode, applied to a mode identifier and a frame         *)

\* An identifier no registry has (a stale selector).
StaleModes == { "Squat" }

\* The identifier is typed string (useState<string>, a prop): the dispatch
\* is applied to the registry's identifiers and to a stale one.
InitDispatch ==
  /\ comp \in Components
  /\ mode \in Registry(comp) \cup StaleModes
  /\ kps \in LoopFrames
  /\ fn = "none"
  /\ out = "none"
  /\ symptoms = "none" /\ detector = TRUE /\ loops = << >> /\ current = 0
  /\ runner = "none" /\ init = "none"
  /\ display = "none" /\ updated = "none" /\ app = "none" /\ panel = "none"
  /\ frame = Skipped(NoPose, mode)

\* The component processes the frame in its mode.
DispatchFrame ==
  /\ fn' = "dispatch"
  /\ frame' = Step(comp, mode, Pose(kps))
  /\ UNCHANGED <<kps, out, symptoms, runner, init, comp, mode, detector, loops, current,
                 display, updated, app, panel>>

NextDispatch == DispatchFrame

SpecDispatch == InitDispatch /\ [][NextDispatch]_vars

UnknownModeByComponent ==
  (fn = "dispatch" /\ mode \notin Registry(comp)) =>
    /\ IsPoseCoach(comp) =>
         /\ frame.threw = "none"
         /\ frame.result = [score |-> 0, cues |-> << "Unsupported mode" >>]
    /\ comp = "ExerciseTracker" => frame.threw = "TypeError"
    /\ comp = "Posher" =>
         /\ frame.threw = "none"
         /\ frame.result =
              [score |-> 0, cues |-> << "Position your full body in frame" >>]

---------------------------------------------------------------------------
(* The frame loop of a tracker component                                  *)

\* What estimatePoses may resolve to.
Poses ==
  { NoPose, Pose(<< >>), Pose(FrameFrom(Upright, AllDetected, 1)),
    Pose(FrameFrom(Striding, AllDetected, 1)),
    Pose(FrameFrom(Upright, [AllDetected EXCEPT !["left_ankle"] = Absent], 1)) }

\* The modes the user moves between.
Selectable(c) ==
  IF IsPoseCoach(c) THEN { "hinge", "plank" }
  ELSE IF c = "ExerciseTracker" THEN { "Hip Hinge", "Walking Posture" }
  ELSE { "Hip Hinge", "Walking" }

\* The most frame-processing chains alive at once.
MaxLoops == 2

\* A chain is a run of loop / processFrame rescheduling itself; it is waiting
\* for its animation frame ("scheduled") or for estimatePoses ("inflight"),
\* and it reads the mode its effect closed over.
Chain(st, m) == [state |-> st, mode |-> m]

RemoveAt(seq, i) == [j \in 1 .. (Len(seq) - 1) |-> IF j < i THEN seq[j] ELSE seq[j + 1]]

\* The effect's cleanup, cancelAnimationFrame(raf): it removes the pending
\* callback of the effect's own chain; a chain awaiting estimatePoses has no
\* pending callback and goes on.
Cleanup(ls, cur) ==
  IF cur # 0 /\ ls[cur].state = "scheduled" THEN RemoveAt(ls, cur) ELSE ls

\* The render-loop effect runs.  PoseCoach requests a frame at once;
\* ExerciseTracker returns if detectorRef.current is unset and otherwise
\* calls processFrame() directly (up to its await); Posher returns unless
\* isReady and otherwise requests a frame.
StartEffect(c, m, det, ls) ==
  IF IsPoseCoach(c)
    THEN [loops |-> Append(ls, Chain("scheduled", m)), current |-> Len(ls) + 1]
  ELSE IF ~det THEN [loops |-> ls, current |-> 0]
  ELSE IF c = "ExerciseTracker"
    THEN [loops |-> Append(ls, Chain("inflight", m)), current |-> Len(ls) + 1]
  ELSE [loops |-> Append(ls, Chain("scheduled", m)), current |-> Len(ls) + 1]

\* A dependency of the effect changed: cleanup, then the effect again.
Rerun(c, m, det, ls, cur) == StartEffect(c, m, det, Cleanup(ls, cur))

\* The first two elements (cues.slice(0, 2)).
Head2(seq) == IF Len(seq) <= 2 THEN seq ELSE SubSeq(seq, 1, 2)

\* ExerciseTracker's render reads result.recommendations where no result is
\* in scope, on the branch taken for "Walking Posture" with a cue to show.
RenderThrows(c, m, cues) ==
  c = "ExerciseTracker" /\ m = "Walking Posture" /\ cues # << >>

Crashed == panel.state = "ReferenceError"

\* The component has mounted; its effects have run once.
InitLoop ==
  /\ comp \in Components
  /\ mode \in IF comp = "ExerciseRunner" THEN { "hinge", "plank" }
              ELSE IF comp = "App" THEN { "hinge" } ELSE { "Hip Hinge" }
  /\ detector = FALSE
  /\ loops = StartEffect(comp, mode, FALSE, << >>).loops
  /\ current = StartEffect(comp, mode, FALSE, << >>).current
  /\ display = [score |-> 0, cues |-> << >>]
  /\ updated = [called |-> FALSE, score |-> 0, cues |-> << >>]
  /\ app = [lastScore |-> 0, cues |-> << >>]
  /\ panel = [state |-> "empty"]
  /\ frame = Skipped(NoPose, mode)
  /\ kps = << >>
  /\ fn = "none"
  /\ out = "none"
  /\ symptoms = "none"
  /\ runner = "none" /\ init = "none"

\* createDetector resolves: detectorRef.current is set; Posher also sets
\* isReady, a dependency of its loop effect.
DetectorLoaded ==
  /\ ~detector
  /\ detector' = TRUE
  /\ LET e == IF comp = "Posher"
                THEN Rerun(comp, mode, TRUE, loops, current)
                ELSE [loops |-> loops, current |-> current]
     IN  loops' = e.loops /\ current' = e.current
  /\ UNCHANGED <<kps, fn, out, symptoms, runner, init, comp, mode, display, updated, app,
                 panel, frame>>

\* The user picks another mode (a button of the registry's identifiers, or
\* ExerciseRunner passing the next item's mode): the loop effect re-runs.
\* ExerciseTracker's render throws if it now takes the walking branch.
SetMode ==
  \E m \in Selectable(comp) \ { mode } :
    /\ ~Crashed
    /\ mode' = m
    /\ IF RenderThrows(comp, m, display.cues)
         THEN /\ panel' = [state |-> "ReferenceError"]
              /\ loops' = Cleanup(loops, current)
              /\ current' = 0
         ELSE LET e == Rerun(comp, m, detector, loops, current)
              IN  /\ Len(e.loops) <= MaxLoops
                  /\ loops' = e.loops /\ current' = e.current
                  /\ panel' = panel
    /\ UNCHANGED <<kps, fn, out, symptoms, runner, init, comp, detector, display, updated,
                   app, frame>>

\* The animation frame of a chain arrives: loop / processFrame runs up to
\* its await of estimatePoses (PoseCoach's loop only reschedules itself
\* while the detector is unset).
RafFire ==
  \E i \in DOMAIN loops :
    /\ loops[i].state = "scheduled"
    /\ IsPoseCoach(comp) => detector
    /\ loops' = [loops EXCEPT ![i].state = "inflight"]
    /\ UNCHANGED <<kps, fn, out, symptoms, runner, init, comp, mode, detector, current,
                   display, updated, app, panel, frame>>

\* What the component shows after frame r: setLastScore / setScore and
\* setLastCues / setCues (PoseCoach keeps the first two cues); an unmounted
\* component keeps nothing new.
Shown(c, r, old, crashed) ==
  IF ~r.set \/ crashed THEN old
  ELSE [score |-> r.result.score,
        cues  |-> IF IsPoseCoach(c) THEN Head2(r.result.cues) ELSE r.result.cues]

\* The chains after chain i processed frame r: it requested its next
\* animation frame, or ended on an exception.
Continue(ls, i, r) ==
  IF r.threw = "none" THEN [ls EXCEPT ![i].state = "scheduled"]
  ELSE RemoveAt(ls, i)

CurrentAfter(cur, i, r) ==
  IF r.threw = "none" \/ cur < i THEN cur
  ELSE IF cur = i THEN 0 ELSE cur - 1

\* The chains after the renders the frame caused.  In PoseCoach lastScore
\* and lastCues are dependencies of the loop effect, and under ExerciseRunner
\* so is onUpdate (a new function on every render of the runner): when they
\* change the effect re-runs.  ExerciseTracker unmounts if its render throws.
Effects(c, m, det, ls, cur, set, changed, crash) ==
  IF crash THEN [loops |-> Cleanup(ls, cur), current |-> 0]
  ELSE IF set /\ (c = "ExerciseRunner" \/ (c = "App" /\ changed))
    THEN Rerun(c, m, det, ls, cur)
  ELSE [loops |-> ls, current |-> cur]

\* estimatePoses of a chain resolves: the rest of loop / processFrame.  The
\* frame is processed in the mode the chain closed over, the setters and
\* onUpdate are called, the next animation frame is requested.
Resolve ==
  \E i \in DOMAIN loops, pose \in Poses :
    /\ loops[i].state = "inflight"
    /\ frame' = Step(comp, loops[i].mode, pose)
    /\ fn' = "frame"
    /\ display' = Shown(comp, frame', display, Crashed)
    /\ updated' = IF frame'.set /\ comp = "ExerciseRunner"
                    THEN [called |-> TRUE, score |-> frame'.result.score,
                          cues |-> frame'.result.cues]
                    ELSE updated
    /\ panel' = IF frame'.set /\ ~Crashed /\ RenderThrows(comp, mode, display'.cues)
                  THEN [state |-> "ReferenceError"] ELSE panel
    /\ loops' = Effects(comp, mode, detector, Continue(loops, i, frame'),
                        CurrentAfter(current, i, frame'), frame'.set /\ ~Crashed,
                        display' # display, panel' # panel).loops
    /\ current' = Effects(comp, mode, detector, Continue(loops, i, frame'),
                          CurrentAfter(current, i, frame'), frame'.set /\ ~Crashed,
                          display' # display, panel' # panel).current
    /\ Len(loops') <= MaxLoops
    /\ UNCHANGED <<kps, out, symptoms, runner, init, comp, mode, detector, app>>

NextLoop == DetectorLoaded \/ SetMode \/ RafFire \/ Resolve

SpecLoop == InitLoop /\ [][NextLoop]_vars

---------------------------------------------------------------------------
(* Frames without keypoints                                               *)

EmptyFrameNotVisible_WitnessTracker ==
  /\ fn = "frame" /\ HasKeypoints(frame.pose)
  /\ frame.pose.keypoints = << >>
  /\ frame.visibility.checked /\ comp = "ExerciseTracker"

EmptyFrameNotVisible_WitnessUndefined ==
  /\ fn = "frame" /\ ~HasKeypoints(frame.pose) /\ display.score > 0

---------------------------------------------------------------------------
(* Visibility gating, the guidance panel, the host's copy, the single loop *)

\* A required landmark is absent from the array or at confidence 0.45 or
\* less (below the threshold of either visibility check).
RequiredUnseen(array) == MissingJoints(array, 45) # << >>

\* C13: on a processed frame with a required landmark missing or of low
\* confidence no evaluator is called, and what reaches the score/cues state
\* and onUpdate is the neutral result: score 0 with an explanatory cue.
VisibilityGatesScoring ==
  (fn = "frame" /\ frame.processed /\ RequiredUnseen(frame.pose.keypoints)) =>
    /\ frame.fn = "none"
    /\ frame.result.score = 0 /\ frame.result.cues # << >>
    /\ ~Crashed => display.score = 0 /\ display.cues # << >>
    /\ comp = "ExerciseRunner" => updated.called /\ updated.score = 0

\* ExerciseTracker alone keeps to it: a frame lacking a required landmark
\* reaches its setters as the neutral result.
VisibilityGatesTracker ==
  (comp = "ExerciseTracker" /\ fn = "frame" /\ frame.processed
     /\ RequiredUnseen(frame.pose.keypoints)) =>
    /\ frame.fn = "none" /\ frame.result.score = 0
    /\ ~Crashed => display = frame.result

\* C17: after a frame scored by scoreWalkingPosture the guidance panel shows
\* that frame's recommendation bundle.
WalkingBundleDisplayed ==
  (fn = "frame" /\ frame.fn = "scoreWalkingPosture") =>
    panel = [state |-> "shown", recommendations |-> frame.result.recommendations]

\* C18: after PoseCoach delivered a frame's result, the lastScore and cues
\* App holds (and passes to the right panel) are that frame's score and cues.
HostReceivesScore ==
  (comp = "App" /\ fn = "frame" /\ frame.set) =>
    /\ app.lastScore = frame.result.score
    /\ app.cues = frame.result.cues

\* C19: at most one frame-processing chain is alive at any time.
SingleLoop == Len(loops) <= 1

---------------------------------------------------------------------------
(* The two screenings side by side                                        *)

\* C28: for every symptom record ScreeningCard's result and PlanModal's
\* screen have the same tone and the same label (whichever of the two was
\* rendered, the other gives that tone and label for the same symptoms).
ScreeningsAgree ==
  fn \in { "ScreeningCard", "PlanModal" } =>
    /\ out.tone = ScreeningCardResult(symptoms).tone
    /\ out.label = ScreeningCardResult(symptoms).label
    /\ out.tone = screen(symptoms).tone
    /\ out.label = screen(symptoms).label

\* PlanModal rendered on the 42nd day without red flag or high pain: the
\* label is the persistent one, as ScreeningCard's, and the notes differ.
ScreeningsAgree_Witness ==
  /\ fn = "PlanModal"
  /\ ~RedFlag(symptoms) /\ symptoms.painWorst = 7
  /\ symptoms.durationDays = 42
  /\ out.label = "Persistent back pain pattern"
  /\ out.notes # ScreeningCardResult(symptoms).notes

ScreeningsAgree_WitnessCard ==
  /\ fn = "ScreeningCard"
  /\ symptoms.trauma /\ symptoms.painWorst = 0
  /\ out.tone = "bad"
  /\ out.notes # screen(symptoms).notes

---------------------------------------------------------------------------
(* Suggestions and the generated session (ScreeningCard, PlanModal)       *)

\* The record SymptomForm hands to onChange (SymptomData), and no record:
\* PlanModal's symptoms state is null until the form is first changed.
NoSymptoms == [filled |-> FALSE]
SymptomData ==
  [painNow : { 3, 9 }, painWorst : { 6, 8 }, location : { "low", "mid", "upper" },
   durationDays : { 7, 42 }, numbness : BOOLEAN, fever : { FALSE },
   bladderBowel : { FALSE }, trauma : { FALSE }, deskHours : { 0, 5, 6 },
   sleepHours : { 7 }, stress : { "med" }]

\* symptoms?. : the record is there.
Filled(s) == s # NoSymptoms

\* The last score and cues App holds and passes to RightPanel and PlanModal.
LastScores == { 0, 59, 60, 61, 100 }
LastCues ==
  { << >>, << "Hinge more from hips" >>,
    << "Hinge more from hips", "Keep spine neutral", "Soften knees slightly" >> }

\* ScreeningCard's suggestions (RightPanel.tsx).
ScreeningCardSuggestions(s, lastScore, cues) ==
  LET baseStretches == << "Cat-Cow (2 min)",
                          "Child's Pose to Side Stretch (1 min/side)",
                          "Knee-to-Chest (1 min)" >>
      extension == << "Sphinx -> Cobra (2-3 min easy range)" >>
      hingePattern == << "Hip Hinge Patterning (2x8 slow reps)" >>
      core == << "Dead Bug (2x8 slow)", "Bird-Dog (2x8/side)",
                 "Side Plank (2x20-30s/side)" >>
      longSits == Filled(s) /\ s.deskHours # 0 /\ s.deskHours >= 6
  IN  [stretches |-> IF Filled(s) /\ s.location = "low"
                       THEN baseStretches \o extension ELSE baseStretches,
       exercises |-> core \o (IF lastScore < 60 THEN hingePattern ELSE << >>),
       habits |-> << IF longSits THEN "Stand or walk 2-3 min every 30-45 min"
                                 ELSE "Keep moving gently through the day",
                     "Aim 7-9h sleep; manage stress (breathing 5 min)" >>,
       videoNotes |-> Head2(cues)]

\* PlanModal's suggestions offering the hinge item up to a score of 60.
PlanModalSuggestions_HingeInclusive(s, lastScore) ==
  LET baseStretches == << [kind |-> "stretch", name |-> "Cat-Cow", durationSec |-> 120],
                          [kind |-> "stretch", name |-> "Knee-to-Chest", durationSec |-> 60] >>
      extension == IF Filled(s) /\ s.location = "low"
                     THEN << [kind |-> "stretch", name |-> "Sphinx -> Cobra",
                              durationSec |-> 120] >>
                     ELSE << >>
      core == << [kind |-> "exercise", name |-> "Dead Bug", reps |-> 8],
                 [kind |-> "exercise", name |-> "Bird-Dog", reps |-> 8],
                 [kind |-> "exercise", name |-> "Side Plank (each)", durationSec |-> 25] >>
      hingeFix == IF lastScore <= 60
                    THEN << [kind |-> "exercise", name |-> "Hip Hinge Patterning",
                             reps |-> 8] >>
                    ELSE << >>
  IN  [stretches |-> baseStretches \o extension, exercises |-> core \o hingeFix]

\* PlanModal's suggestions (PlanModal.tsx): lists of SessionItem.
PlanModalSuggestions(s, lastScore) ==
  LET baseStretches == << [kind |-> "stretch", name |-> "Cat-Cow", durationSec |-> 120],
                          [kind |-> "stretch", name |-> "Knee-to-Chest", durationSec |-> 60] >>
      extension == IF Filled(s) /\ s.location = "low"
                     THEN << [kind |-> "stretch", name |-> "Sphinx -> Cobra",
                              durationSec |-> 120] >>
                     ELSE << >>
      core == << [kind |-> "exercise", name |-> "Dead Bug", reps |-> 8],
                 [kind |-> "exercise", name |-> "Bird-Dog", reps |-> 8],
                 [kind |-> "exercise", name |-> "Side Plank (each)", durationSec |-> 25] >>
      hingeFix == IF lastScore < 60
                    THEN << [kind |-> "exercise", name |-> "Hip Hinge Patterning",
                             reps |-> 8] >>
                    ELSE << >>
  IN  [stretches |-> baseStretches \o extension, exercises |-> core \o hingeFix]

\* The session "Use this plan" hands to onUsePlan.
session(s, lastScore) ==
  PlanModalSuggestions(s, lastScore).stretches
    \o PlanModalSuggestions(s, lastScore).exercises

\* App holds a last score and cues; the form was changed or not.
InitPlan ==
  /\ symptoms \in SymptomData \cup { NoSymptoms }
  /\ runner = "none" /\ init = "none"
  /\ app \in [lastScore : LastScores, cues : LastCues]
  /\ kps = << >>
  /\ fn = "none"
  /\ out = "none"
  /\ comp = "none" /\ mode = "none" /\ detector = FALSE /\ loops = << >>
  /\ current = 0 /\ display = "none" /\ updated = "none"
  /\ panel = "none" /\ frame = "none"

\* ScreeningCard renders its suggestions memo.
SuggestScreeningCard ==
  /\ fn' = "ScreeningCard.suggestions"
  /\ out' = ScreeningCardSuggestions(symptoms, app.lastScore, app.cues)
  /\ UNCHANGED <<kps, uiVars>>

\* PlanModal renders its suggestions memo.
SuggestPlanModal ==
  /\ fn' = "PlanModal.suggestions"
  /\ out' = PlanModalSuggestions(symptoms, app.lastScore)
  /\ UNCHANGED <<kps, uiVars>>

\* "Use this plan" is clicked: the session goes to onUsePlan.
UsePlan ==
  /\ fn' = "onUsePlan"
  /\ out' = [session |-> session(symptoms, app.lastScore)]
  /\ UNCHANGED <<kps, uiVars>>

NextPlan == SuggestScreeningCard \/ SuggestPlanModal \/ UsePlan

SpecPlan == InitPlan /\ [][NextPlan]_vars

\* The exercise a suggested item is: ScreeningCard lists texts, PlanModal
\* SessionItems; either names the exercise and adds its dose.
TextExercise(text) ==
  CASE text = "Dead Bug (2x8 slow)" -> "Dead Bug"
    [] text = "Bird-Dog (2x8/side)" -> "Bird-Dog"
    [] text = "Side Plank (2x20-30s/side)" -> "Side Plank"
    [] text = "Hip Hinge Patterning (2x8 slow reps)" -> "Hip Hinge Patterning"
    [] OTHER -> "other"

ItemExercise(item) ==
  IF item.kind # "exercise" THEN "other"
  ELSE IF item.name = "Side Plank (each)" THEN "Side Plank"
  ELSE item.name

ExerciseOf(item) ==
  IF fn = "ScreeningCard.suggestions" THEN TextExercise(item)
  ELSE ItemExercise(item)

\* C30: the suggested exercises are Dead Bug, Bird-Dog, Side Plank, in that
\* order, followed by Hip Hinge Patterning exactly when lastScore < 60 (a
\* lastScore of 60 leaves it out), in ScreeningCard and in PlanModal alike.
HingeIffBelow60 ==
  fn \in { "ScreeningCard.suggestions", "PlanModal.suggestions" } =>
    [i \in DOMAIN out.exercises |-> ExerciseOf(out.exercises[i])]
      = IF app.lastScore < 60
          THEN << "Dead Bug", "Bird-Dog", "Side Plank", "Hip Hinge Patterning" >>
          ELSE << "Dead Bug", "Bird-Dog", "Side Plank" >>

\* PlanModal at a last score of 60: three exercises, no hinge item.
HingeIffBelow60_Witness ==
  /\ fn = "PlanModal.suggestions" /\ app.lastScore = 60
  /\ Len(out.exercises) = 3

\* ScreeningCard at 59: the hinge item is the fourth; and at 60.
HingeIffBelow60_Witness59 ==
  /\ fn = "ScreeningCard.suggestions" /\ app.lastScore = 59
  /\ Len(out.exercises) = 4
  /\ ExerciseOf(out.exercises[4]) = "Hip Hinge Patterning"

HingeIffBelow60_WitnessCard60 ==
  /\ fn = "ScreeningCard.suggestions" /\ app.lastScore = 60
  /\ Len(out.exercises) = 3

\* The symptom records that differ from s at most in the given fields.
Varying(s, fields) ==
  { t \in SymptomData : \A f \in DOMAIN s : f \notin fields => t[f] = s[f] }

\* C21: the session handed to onUsePlan adapts to pain severity, to symptom
\* duration and to the last score: for the inputs at hand, another pain
\* (painWorst, painNow) gives another session with everything else fixed, so
\* does another durationDays, and so does another lastScore.
SessionAdapts ==
  (fn = "onUsePlan" /\ Filled(symptoms)) =>
    /\ \E t \in Varying(symptoms, { "painWorst", "painNow" }) :
         session(t, app.lastScore) # out.session
    /\ \E t \in Varying(symptoms, { "durationDays" }) :
         session(t, app.lastScore) # out.session
    /\ \E l \in LastScores : session(symptoms, l) # out.session

\* What the session does depend on: the last score (across 60) and the
\* location of the pain; pain, duration and every other field leave it as
\* it is.
SessionAdaptsToScoreOnly ==
  (fn = "onUsePlan" /\ Filled(symptoms)) =>
    /\ \E l \in LastScores : session(symptoms, l) # out.session
    /\ \E t \in Varying(symptoms, { "location" }) :
         session(t, app.lastScore) # out.session
    /\ \A t \in Varying(symptoms, DOMAIN symptoms \ { "location" }) :
         session(t, app.lastScore) = out.session

---------------------------------------------------------------------------
(* The walking score and its recommendation tier                          *)

\* The tier of a score, by the breakpoints 50 and 75, and the tier a
\* recommendation bundle belongs to, by its duration.
TierOfScore(score) ==
  IF score < 50 THEN "intensive" ELSE IF score < 75 THEN "moderate"
  ELSE "maintenance"

TierOfBundle(rec) ==
  IF rec.duration = 20 THEN "intensive"
  ELSE IF rec.duration = 15 THEN "moderate" ELSE "maintenance"

WalkingScores == { 100, 90, 85, 80, 75, 70, 65, 60, 55, 50, 40 }

\* C27: scoreWalkingPosture's recommendation tier, chosen from the score
\* before the clamp (100 minus the penalties of the failed checks), is the
\* tier of the returned score; the returned score is one of 100, 90, 85, 80,
\* 75, 70, 65, 60, 55, 50, 40, so never below 40; and the intensive tier is
\* returned exactly when all four checks fail.
WalkingTierMatchesScore ==
  fn = "scoreWalkingPosture" =>
    LET table == RuleTable(fn, kps)
        raw   == 100 - FailedPenalties(table)
    IN  /\ TierOfBundle(out.recommendations) = TierOfScore(raw)
        /\ TierOfBundle(out.recommendations) = TierOfScore(out.score)
        /\ out.score \in WalkingScores /\ out.score >= 40
        /\ TierOfBundle(out.recommendations) = "intensive"
             <=> NumFailed(table) = 4

\* All four checks failed: 40, the intensive tier.
WalkingTierMatchesScore_Witness ==
  /\ fn = "scoreWalkingPosture"
  /\ NumFailed(RuleTable(fn, kps)) = 4
  /\ out.score = 40
  /\ TierOfBundle(out.recommendations) = "intensive"

\* Three checks failed, 50 or 55: the moderate tier.
WalkingTierMatchesScore_WitnessThree ==
  /\ fn = "scoreWalkingPosture"
  /\ NumFailed(RuleTable(fn, kps)) = 3
  /\ out.score \in { 50, 55 }
  /\ TierOfBundle(out.recommendations) = "moderate"

---------------------------------------------------------------------------
(* The comparisons of the rule tables, one by one                         *)

\* One comparison of an evaluator: whether it holds on the frame, the cue
\* and penalty of the check it belongs to, and whether it is the upper bound
\* of an angle.
Comparison(holds, cue, penalty, upper) ==
  [holds |-> holds, cue |-> cue, penalty |-> penalty, upper |-> upper]

\* The comparisons of an evaluator in the order of its code; a check written
\* as  angle < lo || angle > hi  is two comparisons with one cue.
Comparisons(f, array) ==
  IF f = "scoreHipHinge" THEN
    LET m == HipHingeMeasure(array)
    IN  << Comparison(m.kneeAngle < Deg(155), "Less knee bend - micro-bend only.", 15, FALSE),
           Comparison(m.trunk > Deg(165), "Push hips back; hinge more.", 15, FALSE),
           Comparison(m.trunk < Deg(95), "Don't overfold; limit range.", 10, FALSE),
           Comparison(m.hipTilt > 20, "Level your hips.", 10, FALSE) >>
  ELSE IF f = "scorePlank" THEN
    LET m == PlankMeasure(array)
    IN  << Comparison(m.trunk < Deg(165), "Lift chest / tuck ribs - keep trunk long.", 15, FALSE),
           Comparison(m.trunk > Deg(185), "Don't pike - keep hips level.", 15, TRUE),
           Comparison(m.leg < Deg(165), "Straighten legs - press heels back.", 10, FALSE),
           Comparison(m.hipTilt > 15, "Level your hips.", 10, FALSE) >>
  ELSE IF f = "scoreBirdDog" THEN
    LET m == LimbMeasure(array)
    IN  << Comparison(m.leftArmAngle < Deg(160), "Keep arm straight but not locked.", 15, FALSE),
           Comparison(m.leftArmAngle > Deg(180), "Keep arm straight but not locked.", 15, TRUE),
           Comparison(m.rightLegAngle < Deg(170), "Extend leg fully, keep it in line with hip.", 15, FALSE),
           Comparison(m.rightLegAngle > Deg(190), "Extend leg fully, keep it in line with hip.", 15, TRUE),
           Comparison(m.spineAngle < Deg(160), "Maintain a neutral spine. Keep back flat.", 20, FALSE),
           Comparison(m.spineAngle > Deg(200), "Maintain a neutral spine. Keep back flat.", 20, TRUE),
           Comparison(m.hipTilt > 20, "Keep hips level and stable.", 10, FALSE) >>
  ELSE IF f = "scoreDeadBug" THEN
    LET m == LimbMeasure(array)
    IN  << Comparison(m.leftArmAngle < Deg(160), "Keep arm extended, parallel to ground.", 15, FALSE),
           Comparison(m.leftArmAngle > Deg(190), "Keep arm extended, parallel to ground.", 15, TRUE),
           Comparison(m.rightLegAngle < Deg(160), "Extend leg fully, keep lower back pressed.", 15, FALSE),
           Comparison(m.rightLegAngle > Deg(190), "Extend leg fully, keep lower back pressed.", 15, TRUE),
           Comparison(m.spineAngle < Deg(150),
                      "Maintain a neutral spine. Press lower back into ground.", 20, FALSE),
           Comparison(m.spineAngle > Deg(210),
                      "Maintain a neutral spine. Press lower back into ground.", 20, TRUE),
           Comparison(m.hipTilt > 15, "Keep hips level and stable.", 10, FALSE) >>
  ELSE
    LET m == WalkingMeasure(array)
    IN  << Comparison(m.spineAngle < Deg(170),
                      "Maintain a neutral spine. Keep head aligned with shoulders.", 20, FALSE),
           Comparison(m.spineAngle > Deg(190),
                      "Maintain a neutral spine. Keep head aligned with shoulders.", 20, TRUE),
           Comparison(m.hipLevelDiff > 30,
                      "Keep hips level. Avoid tilting to one side while walking.", 15, FALSE),
           Comparison(m.kneeTrackingAngle < Deg(160),
                      "Align knees properly. Avoid inward or outward knee rotation.", 15, FALSE),
           Comparison(m.kneeTrackingAngle > Deg(200),
                      "Align knees properly. Avoid inward or outward knee rotation.", 15, TRUE),
           Comparison(m.strideDiff > 50,
                      "Maintain consistent stride length. Avoid overstriding or short steps.",
                      10, FALSE) >>

\* C22: every comparison of the rule table of the evaluator at hand can be
\* made to hold (its check fails): some frame makes it hold.
EveryCheckTriggerable ==
  fn \in Evaluators =>
    \A i \in DOMAIN Comparisons(fn, kps) :
      \E array \in Frames : Comparisons(fn, array)[i].holds

\* The comparisons of an angle with a bound above 180 degrees hold on no
\* frame: angleDeg returns at most 180.  A comparison that does hold puts
\* its cue among the cues.
UpperBoundsNeverHold ==
  fn \in Evaluators =>
    \A i \in DOMAIN Comparisons(fn, kps) :
      /\ Comparisons(fn, kps)[i].upper => ~Comparisons(fn, kps)[i].holds
      /\ Comparisons(fn, kps)[i].holds =>
           /\ InSeq(Comparisons(fn, kps)[i].cue, out.cues)
           /\ out.score <= 100 - Comparisons(fn, kps)[i].penalty

\* Every other comparison of every evaluator holds on some frame (looked up
\* once, in the state where hip hinge was scored on the empty array).
LowerChecksTriggerable ==
  (fn = "scoreHipHinge" /\ kps = << >>) =>
    \A f \in Evaluators :
      \A i \in DOMAIN Comparisons(f, kps) :
        Comparisons(f, kps)[i].upper
          \/ \E array \in Frames : Comparisons(f, array)[i].holds

---------------------------------------------------------------------------
(* The registry's optimal ranges against the evaluators' bands             *)

Marker(name, min, max) == [name |-> name, min |-> min, max |-> max]

\* optimalPoseMarkers with Hip Hinge's trunk range reaching up to 170.
optimalPoseMarkers_WideTrunk(x) ==
  CASE x = "Hip Hinge" ->
         << Marker("Trunk Angle", 110, 170), Marker("Knee Angle", 155, 175) >>
    [] x = "Plank" ->
         << Marker("Trunk Alignment", 165, 185), Marker("Hip Level", -10, 10) >>
    [] x = "Bird Dog" ->
         << Marker("Arm Extension", 160, 180), Marker("Leg Extension", 170, 190) >>
    [] x = "Dead Bug" ->
         << Marker("Arm Position", 160, 190), Marker("Leg Angle", 160, 190) >>
    [] x = "Walking Posture" ->
         << Marker("Spine Alignment", 170, 190), Marker("Hip Levelness", -30, 30) >>

\* optimalPoseMarkers of EXERCISES (ExerciseTracker.tsx): name and
\* optimalRange of each marker of an exercise.
optimalPoseMarkers(x) ==
  CASE x = "Hip Hinge" ->
         << Marker("Trunk Angle", 110, 160), Marker("Knee Angle", 155, 175) >>
    [] x = "Plank" ->
         << Marker("Trunk Alignment", 165, 185), Marker("Hip Level", -10, 10) >>
    [] x = "Bird Dog" ->
         << Marker("Arm Extension", 160, 180), Marker("Leg Extension", 170, 190) >>
    [] x = "Dead Bug" ->
         << Marker("Arm Position", 160, 190), Marker("Leg Angle", 160, 190) >>
    [] x = "Walking Posture" ->
         << Marker("Spine Alignment", 170, 190), Marker("Hip Levelness", -30, 30) >>

\* The exercise of EXERCISES an evaluator scores.
ExerciseScoredBy(f) == CHOOSE x \in DOMAIN EXERCISES : EXERCISES[x] = f

\* The signed difference of the hip heights.
HipLevel(array) == YOf(array, "left_hip") - YOf(array, "right_hip")

\* What a marker measures on a frame, and the comparisons of the evaluator
\* (by their place in its code) that penalise that measurement.  Angles are
\* in degrees: inside [min, max] is  Deg(min) <= angle <= Deg(max).
Measured(f, k, array) ==
  CASE f = "scoreHipHinge" /\ k = 1 ->
         [value |-> HipHingeMeasure(array).trunk, angle |-> TRUE, checks |-> { 2, 3 }]
    [] f = "scoreHipHinge" /\ k = 2 ->
         [value |-> HipHingeMeasure(array).kneeAngle, angle |-> TRUE, checks |-> { 1 }]
    [] f = "scorePlank" /\ k = 1 ->
         [value |-> PlankMeasure(array).trunk, angle |-> TRUE, checks |-> { 1, 2 }]
    [] f = "scorePlank" /\ k = 2 ->
         [value |-> HipLevel(array), angle |-> FALSE, checks |-> { 4 }]
    [] f \in { "scoreBirdDog", "scoreDeadBug" } /\ k = 1 ->
         [value |-> LimbMeasure(array).leftArmAngle, angle |-> TRUE, checks |-> { 1, 2 }]
    [] f \in { "scoreBirdDog", "scoreDeadBug" } /\ k = 2 ->
         [value |-> LimbMeasure(array).rightLegAngle, angle |-> TRUE, checks |-> { 3, 4 }]
    [] f = "scoreWalkingPosture" /\ k = 1 ->
         [value |-> WalkingMeasure(array).spineAngle, angle |-> TRUE, checks |-> { 1, 2 }]
    [] f = "scoreWalkingPosture" /\ k = 2 ->
         [value |-> HipLevel(array), angle |-> FALSE, checks |-> { 3 }]

InOptimalRange(marker, m) ==
  IF m.angle THEN Deg(marker.min) <= m.value /\ m.value <= Deg(marker.max)
  ELSE marker.min <= m.value /\ m.value <= marker.max

\* C29: for every marker of the exercise the evaluator at hand scores, a
\* measurement inside the marker's optimal range fails none of the
\* comparisons of that measurement: its cue is not among the cues returned.
OptimalRangeUnpenalised ==
  fn \in Evaluators =>
    \A k \in DOMAIN optimalPoseMarkers(ExerciseScoredBy(fn)) :
      InOptimalRange(optimalPoseMarkers(ExerciseScoredBy(fn))[k],
                     Measured(fn, k, kps)) =>
        \A i \in Measured(fn, k, kps).checks :
          /\ ~Comparisons(fn, kps)[i].holds
          /\ ~InSeq(Comparisons(fn, kps)[i].cue, out.cues)

\* A hip hinge with the trunk inside [110, 160] and no trunk cue; a walking
\* frame with the hips 30 apart, the end of the range, and no hip cue.
OptimalRangeUnpenalised_Witness ==
  /\ fn = "scoreHipHinge"
  /\ InOptimalRange(optimalPoseMarkers("Hip Hinge")[1], Measured(fn, 1, kps))
  /\ ~InSeq("Push hips back; hinge more.", out.cues)
  /\ out.score < 100

OptimalRangeUnpenalised_WitnessHips ==
  /\ fn = "scoreWalkingPosture"
  /\ Abs(HipLevel(kps)) = 30
  /\ ~InSeq("Keep hips level. Avoid tilting to one side while walking.", out.cues)

---------------------------------------------------------------------------
(* ExerciseRunner: stepping through a session                             *)

\* mapToPoseMode: "hinge" / "plank" if the lower-cased name includes the
\* word, else null; on the names PlanModal's sessions carry.
mapToPoseMode(name) ==
  IF name = "Hip Hinge Patterning" THEN "hinge"
  ELSE IF name = "Side Plank (each)" THEN "plank"
  ELSE "null"

\* The sessions App hands down: those PlanModal generates (with and without
\* the extension stretch and the hinge item), any tail of them, and none.
PlanSessions ==
  { session(s, l) :
      s \in { NoSymptoms, CHOOSE t \in SymptomData : t.location = "low" },
      l \in { 0, 100 } }

RunnerSessions ==
  { SubSeq(s, i, Len(s)) : s \in PlanSessions, i \in 1 .. 8 }

\* const item = session[idx]: undefined beyond the end.
HasItem(r) == r.idx < Len(r.session)

\* The mode effect, run after a render that changed idx or item.
ModeOf(sess, idx) ==
  IF idx < Len(sess) /\ mapToPoseMode(sess[idx + 1].name) # "null"
    THEN mapToPoseMode(sess[idx + 1].name)
    ELSE "none"

Runner(sess, idx) == [session |-> sess, idx |-> idx, mode |-> ModeOf(sess, idx)]

\* ExerciseRunner mounts with some session, at step 0.
InitRunner ==
  /\ runner \in { Runner(sess, 0) : sess \in RunnerSessions }
  /\ init = "none"
  /\ symptoms = "none"
  /\ kps = << >>
  /\ fn = "none"
  /\ out = "none"
  /\ comp = "none" /\ mode = "none" /\ detector = FALSE /\ loops = << >>
  /\ current = 0 /\ display = "none" /\ updated = "none" /\ app = "none"
  /\ panel = "none" /\ frame = "none"

\* The Prev button (rendered only while there is an item):
\* setIdx(Math.max(0, idx - 1)).
Prev ==
  /\ HasItem(runner)
  /\ fn' = "Prev"
  /\ runner' = Runner(runner.session, Max(0, runner.idx - 1))
  /\ UNCHANGED <<kps, out, symptoms, init, comp, mode, detector, loops,
                 current, display, updated, app, panel, frame>>

\* The Next button: setIdx(Math.min(session.length - 1, idx + 1)).
NextItem ==
  /\ HasItem(runner)
  /\ fn' = "Next"
  /\ runner' = Runner(runner.session,
                      Min(Len(runner.session) - 1, runner.idx + 1))
  /\ UNCHANGED <<kps, out, symptoms, init, comp, mode, detector, loops,
                 current, display, updated, app, panel, frame>>

\* The parent passes another session; idx is state and stays.
ReplaceSession ==
  \E sess \in RunnerSessions \ { runner.session } :
    /\ fn' = "session"
    /\ runner' = Runner(sess, runner.idx)
    /\ UNCHANGED <<kps, out, symptoms, init, comp, mode, detector, loops,
                   current, display, updated, app, panel, frame>>

NextRunner == Prev \/ NextItem \/ ReplaceSession

SpecRunner == InitRunner /\ [][NextRunner]_vars

\* C26: whenever the session is non-empty the step index is within
\* 0 .. session.length - 1 and there is a current item.
RunnerIndexInRange ==
  Len(runner.session) > 0 =>
    /\ 0 <= runner.idx /\ runner.idx <= Len(runner.session) - 1
    /\ HasItem(runner)

\* What holds: Prev and Next keep an index that is in range in range, Prev at
\* the first step and Next at the last leave it as it is, and the index is
\* never negative.
PrevNextClamp ==
  [][/\ runner'.idx >= 0
     /\ fn' \in { "Prev", "Next" } =>
          /\ runner'.idx < Len(runner'.session)
          /\ (fn' = "Prev" /\ runner.idx = 0) => runner'.idx = 0
          /\ (fn' = "Next" /\ runner.idx = Len(runner.session) - 1) =>
               runner'.idx = runner.idx]_vars

---------------------------------------------------------------------------
(* The initialisation effect of a tracker and its cleanup                 *)

\* The mounted trackers: PoseCoach under either of its hosts, and the two
\* ExerciseTrackers.  PoseCoach and ExerciseTracker create the detector and
\* then open the camera; Posher opens the camera and creates the detector in
\* onloadedmetadata.
Trackers == { "App", "ExerciseRunner", "ExerciseTracker", "Posher" }

\* The effect has run up to its first await.  pending is the asynchronous
\* step awaited; stream is the camera stream ("none", "live", "stopped");
\* attached: it is the video element's srcObject; detector is the pose
\* detector ("none", "created": exists but is in no ref, "stored": in
\* detectorRef, "disposed"); late collects what was written after the
\* unmount.
Effect(c) ==
  [mounted |-> TRUE,
   pending |-> IF c = "Posher" THEN "getUserMedia" ELSE "setBackend",
   stream |-> "none", attached |-> FALSE, detector |-> "none",
   status |-> IF c = "Posher" THEN "Initializing camera and AI model..."
              ELSE "Loading model...",
   ready |-> FALSE, late |-> {}]

\* setStatus / setIsReady / detectorRef.current = ..., noted if the
\* component is no longer mounted.
Written(i, what) == IF i.mounted THEN i.late ELSE i.late \cup { what }

SetStatus(i, text) == [i EXCEPT !.status = text, !.late = Written(i, "status")]

\* The errors an awaited step rejects with, by name.
Outcomes == { "ok", "NotAllowedError", "NotFoundError", "Error" }

\* catch: an awaited step failed with error e; the handler sets the status
\* whether or not the effect was cancelled.  Posher's outer catch tells the
\* DOMExceptions of getUserMedia apart, its inner one (onloadedmetadata)
\* reports an initialization error.
Failed(c, i, e) ==
  [SetStatus(i,
     IF IsPoseCoach(c)
       THEN "Camera or model failed to load. Check permissions and reload."
     ELSE IF c = "ExerciseTracker"
       THEN "Failed to load camera or model. Check permissions."
     ELSE IF i.pending # "getUserMedia" THEN "Initialization error"
     ELSE IF e = "NotAllowedError"
       THEN "Camera access denied. Please grant camera permissions."
     ELSE IF e = "NotFoundError"
       THEN "No camera found. Please connect a camera."
     ELSE "Camera error")
   EXCEPT !.pending = "none"]

InitInit ==
  /\ comp \in Trackers
  /\ init = Effect(comp)
  /\ runner = "none"
  /\ symptoms = "none"
  /\ kps = << >>
  /\ fn = "none"
  /\ out = "none"
  /\ mode = "none" /\ detector = FALSE /\ loops = << >>
  /\ current = 0 /\ display = "none" /\ updated = "none" /\ app = "none"
  /\ panel = "none" /\ frame = "none"

\* await tf.setBackend("webgl") settles.
SetBackendDone ==
  \E e \in { "ok", "Error" } :
    /\ init.pending = "setBackend"
    /\ init' = IF e = "ok" THEN [init EXCEPT !.pending = "createDetector"]
               ELSE Failed(comp, init, e)
    /\ fn' = "setBackend"
    /\ UNCHANGED <<kps, out, symptoms, runner, comp, mode, detector, loops,
                   current, display, updated, app, panel, frame>>

\* await posedetection.createDetector(...) settles: if (cancelled) return,
\* else the detector goes into detectorRef; Posher then sets isReady and the
\* status, the others go on to open the camera.
CreateDetectorDone ==
  \E e \in { "ok", "Error" } :
    /\ init.pending = "createDetector"
    /\ init' =
         IF e # "ok" THEN Failed(comp, init, e)
         ELSE IF ~init.mounted
           THEN [init EXCEPT !.detector = "created", !.pending = "none"]
         ELSE IF comp = "Posher"
           THEN [SetStatus(init, "Camera and AI model ready.") EXCEPT
                   !.detector = "stored", !.ready = TRUE, !.pending = "none"]
         ELSE [init EXCEPT !.detector = "stored", !.pending = "getUserMedia"]
    /\ fn' = "createDetector"
    /\ UNCHANGED <<kps, out, symptoms, runner, comp, mode, detector, loops,
                   current, display, updated, app, panel, frame>>

\* await navigator.mediaDevices.getUserMedia(...) settles.  There is no
\* cancelled check after it.  videoRef.current is null once the component
\* has unmounted: PoseCoach's  v.srcObject = stream  then throws into the
\* catch, ExerciseTracker skips its  if (videoElement)  block, Posher sets
\* an error status and returns.
GetUserMediaDone ==
  \E e \in Outcomes :
    /\ init.pending = "getUserMedia"
    /\ init' =
         IF e # "ok" THEN Failed(comp, init, e)
         ELSE IF init.mounted
           THEN [init EXCEPT !.stream = "live", !.attached = TRUE,
                             !.pending = "onloadedmetadata"]
         ELSE IF comp = "ExerciseTracker"
           THEN [init EXCEPT !.stream = "live", !.pending = "none"]
         ELSE IF comp = "Posher"
           THEN [SetStatus(init, "Error: Video or Canvas element not initialized")
                   EXCEPT !.stream = "live", !.pending = "none"]
         ELSE [Failed(comp, init, "Error") EXCEPT !.stream = "live"]
    /\ fn' = "getUserMedia"
    /\ UNCHANGED <<kps, out, symptoms, runner, comp, mode, detector, loops,
                   current, display, updated, app, panel, frame>>

\* The video element's onloadedmetadata fires (the stream is live): play,
\* then the status (PoseCoach, ExerciseTracker) or, in Posher, on to the
\* detector.
LoadedMetadata ==
  /\ init.pending = "onloadedmetadata"
  /\ init.stream = "live"
  /\ init' =
       IF comp = "Posher" THEN [init EXCEPT !.pending = "play"]
       ELSE [SetStatus(init,
               IF IsPoseCoach(comp)
                 THEN "Step back 6-8 ft; full body in frame. Good lighting helps."
               ELSE "Position yourself fully in the frame")
             EXCEPT !.pending = "none"]
  /\ fn' = "onloadedmetadata"
  /\ UNCHANGED <<kps, out, symptoms, runner, comp, mode, detector, loops,
                 current, display, updated, app, panel, frame>>

\* Posher: await videoElement.play() settles.
PlayDone ==
  \E e \in { "ok", "NotAllowedError" } :
    /\ init.pending = "play"
    /\ init' = IF e = "ok" THEN [init EXCEPT !.pending = "setBackend"]
               ELSE Failed(comp, init, e)
    /\ fn' = "play"
    /\ UNCHANGED <<kps, out, symptoms, runner, comp, mode, detector, loops,
                   current, display, updated, app, panel, frame>>

\* The component unmounts: the effect's cleanup.  cancelled = true; the
\* stream is stopped if the cleanup can reach it (Posher keeps it in a
\* variable of the effect; the others read videoRef.current, which React may
\* already have reset when the cleanup of a passive effect runs: either
\* outcome); detectorRef.current?.dispose().  Metadata of a stopped stream
\* never loads.
Unmount ==
  \E refSet \in BOOLEAN :
    /\ init.mounted
    /\ LET reach == init.stream = "live"
                      /\ (comp = "Posher" \/ (refSet /\ init.attached))
       IN  init' = [init EXCEPT
                      !.mounted = FALSE,
                      !.stream = IF reach THEN "stopped" ELSE @,
                      !.detector = IF @ = "stored" THEN "disposed" ELSE @,
                      !.pending = IF reach /\ @ = "onloadedmetadata"
                                    THEN "none" ELSE @]
    /\ fn' = "unmount"
    /\ UNCHANGED <<kps, out, symptoms, runner, comp, mode, detector, loops,
                   current, display, updated, app, panel, frame>>

NextInit ==
  SetBackendDone \/ CreateDetectorDone \/ GetUserMediaDone \/ LoadedMetadata
    \/ PlayDone \/ Unmount

SpecInit == InitInit /\ [][NextInit]_vars

\* C25: once the component has unmounted and no asynchronous step of its
\* initialisation is outstanding, no camera stream it obtained is live and
\* no detector it created is undisposed; and nothing (detectorRef, status,
\* ready) is written after the unmount.
UnmountReleasesAll ==
  /\ (~init.mounted /\ init.pending = "none") =>
       /\ init.stream # "live"
       /\ init.detector \notin { "created", "stored" }
  /\ init.late = {}

\* What the cancelled flag does achieve: after the unmount no detector is
\* stored and ready is not set; and a cleanup that runs after initialisation
\* has finished, and reaches the stream, releases both.
CancelledGuardsDetectorRef ==
  /\ init.late \subseteq { "status" }
  /\ [][(~init.mounted) =>
          /\ (init'.detector = "stored") => (init.detector = "stored")
          /\ init'.ready = init.ready]_vars

---------------------------------------------------------------------------
(* Mode changes and the start of the loop                                 *)

\* The chains awaiting estimatePoses.  Only the resolution of such a wait
\* (Resolve) lowers their number.
Inflight(ls) == Cardinality({ i \in DOMAIN ls : ls[i].state = "inflight" })

\* C23: every result a frame writes to the component's state (and passes to
\* onUpdate) was computed in the mode selected when it is written: after a
\* mode change no result of the previous mode is delivered.
ResultsOfSelectedMode ==
  [][(Inflight(loops') < Inflight(loops) /\ frame'.set) =>
       frame'.mode = mode]_vars

\* While one chain runs, what it delivers is of the selected mode.
SingleChainOfSelectedMode ==
  [][(Inflight(loops') < Inflight(loops) /\ frame'.set /\ Len(loops) = 1
        /\ current = 1) =>
       frame'.mode = mode]_vars

\* The loop under the browser's scheduling: a created detector is stored, a
\* requested animation frame arrives, estimatePoses settles.  The user need
\* never pick another exercise.
SpecLoopLive ==
  SpecLoop /\ WF_vars(DetectorLoaded) /\ WF_vars(RafFire) /\ WF_vars(Resolve)

\* C24: in ExerciseTracker, once the detector is in detectorRef a frame is
\* eventually processed, whether or not the user changes the exercise.
TrackerLoopStarts ==
  (comp = "ExerciseTracker") => [](detector => <>(fn = "frame"))

\* PoseCoach and Posher do process a frame once the detector is there.
OtherLoopsStart ==
  (comp # "ExerciseTracker") => [](detector => <>(fn = "frame"))

\* ExerciseTracker gets its first chain only from a change of exercise.
TrackerChainNeedsModeChange ==
  [][(comp = "ExerciseTracker" /\ loops = << >> /\ loops' # << >>) =>
       mode' # mode]_vars

=============================================================================
